---- MODULE Spec2Model ----
(***************************************************************************)
(* Geolocation enrichment pipeline of mbhillrn/wcurgui:                    *)
(*   scripts/peerlist.py   terminal peer list, persistent store peers_geo  *)
(*   web/server.py         web dashboard, session cache only               *)
(*   web/MBCoreServer.py   web dashboard, geo.db store plus session cache  *)
(*                                                                         *)
(* Python dicts and SQLite tables are functions whose DOMAIN is the set of *)
(* keys present; time.time() is the variable now (seconds).                *)
(***************************************************************************)
EXTENDS Integers, Sequences, FiniteSets, TLC

VARIABLES
    prog,             \* which program runs: "peerlist", "server" or "MBCore"
    addrs,            \* the peer addresses [network, ip] this run can meet
    now,              \* int(time.time())
    peers_geo,        \* table peers_geo of data/peers.db: ip -> row
    geo_db_enabled,   \* MBCoreServer.py: GEO_DB_ENABLED of the config
    geo_db,           \* MBCoreServer.py: table geo_cache of data/geo.db: ip -> row
    geo_cache,        \* session cache (web servers): ip -> entry
    pending_lookups,  \* set of ips with a lookup outstanding
    geo_queue,        \* queue.Queue of (ip, network_type)
    worker,           \* the lookup worker thread: its position and locals
    threads,          \* the producer threads: name -> position and locals
    last_call,        \* history: the last call of interest and its arguments
    streak,           \* history: ip -> consecutive stored failures since the ip was unseen
    hist,             \* history: ip -> what its current or last pending episode did
    current_peers,    \* web servers: the last getpeerinfo snapshot
    refresh,          \* web servers: refresh_worker's position and locals
    peer_ip_map,      \* web servers: peer id -> [ip, port, network]
    recent_changes,   \* web servers: list of (time, type, peer)
    sse_update_event, \* web servers: the threading.Event of the SSE endpoint
    last_update_type, \* web servers: the type of the last broadcast
    consumers,        \* web servers: the /api/events generators: name -> position
    response,         \* history: the last answer of a read call
    owed,             \* history: consumers connected at a broadcast, not yet notified
    missed,           \* history: consumers sent a keepalive while owed a notification
    rate,             \* history: whether the worker slept since its last API call
    stop_flag,        \* the threading.Event that ends the loops
    locks             \* web servers: thread -> its position in its lock program, the mutexes it holds

storeVars == <<peers_geo, geo_db_enabled, geo_db, geo_cache>>
pipeVars == <<pending_lookups, geo_queue, worker, threads>>
trackVars == <<current_peers, refresh, peer_ip_map, recent_changes>>
sseVars == <<sse_update_event, last_update_type, consumers>>
webVars == <<trackVars, sseVars, response, owed, missed, stop_flag, locks>>
vars == <<prog, addrs, now, storeVars, pipeVars, last_call, streak, hist, webVars, rate>>

----------------------------------------------------------------------------
(* Bounds of the model *)

\* Number of clock steps the model takes.
MaxTicks == 1
\* Number of refresh cycles of the web server after the first.
MaxCycles == 3
\* The same with the worker, the read calls or the consumers running.
MaxWebCycles == 1
\* Number of steps of one week the clock takes in the backoff specification.
MaxWeeks == 1
\* Number of clock steps in the store specification.
MaxStoreTicks == 1
\* Number of queue_geo_lookup calls the callers of the dispatcher
\* specification make for one ip.
MaxCalls == 2
\* Largest geo_retry_count a row of the initial table carries, and the cap of
\* the counter in the store specification.
MaxRetry == 5

----------------------------------------------------------------------------
(* Program constants *)

GEO_OK == 0
GEO_PRIVATE == 1
GEO_UNAVAILABLE == 2

\* MBCoreServer.py: seconds between refreshes, seconds a change stays recent
REFRESH_INTERVAL == 10
RECENT_WINDOW == 20

\* 1d, 3d, 7d, 7d...
RETRY_INTERVALS == <<86400, 259200, 604800, 604800>>

\* The clock advances by the first retry interval (one day).
TickStep == RETRY_INTERVALS[1]

Min(a, b) == IF a <= b THEN a ELSE b

----------------------------------------------------------------------------
(* Addresses.  An ip string is its separator and the labels between the    *)
(* separators: "10.0.0.1" is [sep |-> ".", parts |-> <<"10","0","0","1">>], *)
(* "fe80::1" is [sep |-> ":", parts |-> <<"fe80","","1">>].                 *)

Str(sep, parts) == [sep |-> sep, parts |-> parts]

IP_BERLIN    == Str(".", <<"203", "0", "113", "5">>)
IP_FAILING   == Str(".", <<"198", "51", "100", "9">>)
IP_TEN       == Str(".", <<"10", "0", "0", "1">>)
IP_172_16    == Str(".", <<"172", "16", "0", "1">>)
IP_172_32    == Str(".", <<"172", "32", "0", "1">>)
IP_192_168   == Str(".", <<"192", "168", "1", "1">>)
IP_LOOPBACK  == Str(".", <<"127", "0", "0", "1">>)
IP_LOCALHOST == Str(".", <<"localhost">>)
IP_LINKLOCAL == Str(":", <<"fe80", "", "1">>)
IP_LOOPBACK6 == Str(":", <<"", "", "1">>)
IP_V6        == Str(":", <<"2001", "db8", "", "1">>)
IP_ONION     == Str(".", <<"expyuzz4wqqyqhjn", "onion">>)
IP_I2P       == Str(".", <<"udhdrtrcetjm5sxz", "b32", "i2p">>)
IP_CJDNS     == Str(":", <<"fc00", "", "1">>)

\* s.startswith(label + sep): the first label is `label` and a separator follows it.
StartsWith(s, sep, label) ==
    /\ s.sep = sep
    /\ Len(s.parts) >= 2
    /\ s.parts[1] = label

\* int(text) of the labels that are decimal numbers; other labels raise ValueError.
IntOf ==
    [t \in {"0", "1", "5", "9", "16", "32", "51", "100", "113", "168"} |->
        CASE t = "0" -> 0 [] t = "1" -> 1 [] t = "5" -> 5 [] t = "9" -> 9
          [] t = "16" -> 16 [] t = "32" -> 32 [] t = "51" -> 51
          [] t = "100" -> 100 [] t = "113" -> 113 [] t = "168" -> 168]

is_private_ip(ip) ==
    IF StartsWith(ip, ".", "10")
       \/ (StartsWith(ip, ".", "192") /\ Len(ip.parts) >= 3 /\ ip.parts[2] = "168")
    THEN TRUE
    ELSE IF /\ StartsWith(ip, ".", "172")
            /\ ip.parts[2] \in DOMAIN IntOf
            /\ 16 <= IntOf[ip.parts[2]]
            /\ IntOf[ip.parts[2]] <= 31
    THEN TRUE
    ELSE IF StartsWith(ip, ".", "127") \/ ip = IP_LOCALHOST
    THEN TRUE
    ELSE IF StartsWith(ip, ":", "fe80") \/ ip = IP_LOOPBACK6
    THEN TRUE
    ELSE FALSE

\* faulty variant: the network type is not looked at
is_public_address_IpOnly(network_type, ip) == ~is_private_ip(ip)

is_public_address(network_type, ip) ==
    IF network_type \notin {"ipv4", "ipv6"} THEN FALSE
    ELSE IF is_private_ip(ip) THEN FALSE
    ELSE TRUE

----------------------------------------------------------------------------
(* The persistent store of peerlist.py and server.py: table peers_geo *)

\* SQL NULL, and the two SQL functions the upsert uses
Null == "NULL"
NULLIF(x, y) == IF x = y THEN Null ELSE x
COALESCE(a, b) == IF a # Null THEN a ELSE b

\* keyword arguments of upsert_peer_geo at their defaults
NoGeoArgs ==
    [country |-> "", country_code |-> "", region |-> "", region_name |-> "",
     city |-> "", district |-> "", lat |-> 0, lon |-> 0,
     isp |-> "", as_info |-> "", hosting |-> 0]

\* faulty variant: the first stored failure already counts as a retry
InsertedRetryCount_One(geo_status) == IF geo_status = GEO_UNAVAILABLE THEN 1 ELSE 0

\* geo_retry_count of the row an INSERT creates: the column is not in the
\* INSERT's column list, so it takes the schema's DEFAULT 0
InsertedRetryCount(geo_status) == 0

\* faulty variant: the count is never reset
UpdatedRetryCount_NoReset(old_count, geo_status) == old_count + 1

\* geo_retry_count = CASE WHEN excluded.geo_status = ? THEN geo_retry_count + 1 ELSE 0 END
UpdatedRetryCount(old_count, geo_status) ==
    IF geo_status = GEO_UNAVAILABLE THEN old_count + 1 ELSE 0

\* faulty variant: the new value overwrites the column
Coalesced_Overwrite(excluded, col) == excluded

\* COALESCE(NULLIF(excluded.col, ''), col)
Coalesced(excluded, col) == COALESCE(NULLIF(excluded, ""), col)

\* CASE WHEN excluded.lat != 0 THEN excluded.lat ELSE lat END
CoalescedNum(excluded, col) == IF excluded # 0 THEN excluded ELSE col

\* peerlist.py upsert_peer_geo: the table after the call at time t
upsert_peer_geo(tbl, ip, network_type, geo_status, a, t) ==
    IF ip \notin DOMAIN tbl
    THEN [i \in DOMAIN tbl \cup {ip} |->
            IF i # ip THEN tbl[i]
            ELSE [network_type |-> network_type,
                  geo_status |-> geo_status,
                  geo_retry_count |-> InsertedRetryCount(geo_status),
                  geo_last_lookup |-> t,
                  country |-> a.country, country_code |-> a.country_code,
                  region |-> a.region, region_name |-> a.region_name,
                  city |-> a.city, district |-> a.district,
                  lat |-> a.lat, lon |-> a.lon,
                  isp |-> a.isp, as_info |-> a.as_info, hosting |-> a.hosting,
                  first_seen |-> t, last_seen |-> t]]
    ELSE [tbl EXCEPT ![ip] =
            [@ EXCEPT
                !.geo_status = geo_status,
                !.geo_last_lookup = t,
                !.geo_retry_count = UpdatedRetryCount(@, geo_status),
                !.country = Coalesced(a.country, @),
                !.country_code = Coalesced(a.country_code, @),
                !.region = Coalesced(a.region, @),
                !.region_name = Coalesced(a.region_name, @),
                !.city = Coalesced(a.city, @),
                !.district = Coalesced(a.district, @),
                !.lat = CoalescedNum(a.lat, @),
                !.lon = CoalescedNum(a.lon, @),
                !.isp = Coalesced(a.isp, @),
                !.as_info = Coalesced(a.as_info, @),
                !.hosting = a.hosting,
                !.last_seen = t]]

\* server.py upsert_peer_geo: no geo_retry_count and no district in the update
server_upsert_peer_geo(tbl, ip, network_type, geo_status, a, t) ==
    IF ip \notin DOMAIN tbl
    THEN [i \in DOMAIN tbl \cup {ip} |->
            IF i # ip THEN tbl[i]
            ELSE [network_type |-> network_type,
                  geo_status |-> geo_status,
                  geo_retry_count |-> 0,
                  geo_last_lookup |-> t,
                  country |-> a.country, country_code |-> a.country_code,
                  region |-> a.region, region_name |-> a.region_name,
                  city |-> a.city, district |-> a.district,
                  lat |-> a.lat, lon |-> a.lon,
                  isp |-> a.isp, as_info |-> a.as_info, hosting |-> a.hosting,
                  first_seen |-> t, last_seen |-> t]]
    ELSE [tbl EXCEPT ![ip] =
            [@ EXCEPT
                !.geo_status = geo_status,
                !.geo_last_lookup = t,
                !.country = Coalesced(a.country, @),
                !.country_code = Coalesced(a.country_code, @),
                !.region = Coalesced(a.region, @),
                !.region_name = Coalesced(a.region_name, @),
                !.city = Coalesced(a.city, @),
                !.lat = CoalescedNum(a.lat, @),
                !.lon = CoalescedNum(a.lon, @),
                !.isp = Coalesced(a.isp, @),
                !.as_info = Coalesced(a.as_info, @),
                !.hosting = a.hosting,
                !.last_seen = t]]

\* The interval should_retry_geo looks up for a retry count
\* faulty variant: no backoff, the first interval always
RetryInterval_First(retry_count) == RETRY_INTERVALS[1]

\* faulty variant: the index is clamped one entry too early
RetryInterval_Clamp(retry_count) ==
    RETRY_INTERVALS[Min(retry_count, Len(RETRY_INTERVALS) - 3) + 1]

\* faulty variant: a count beyond the table wraps around to its start
RetryInterval_Wrap(retry_count) ==
    RETRY_INTERVALS[(retry_count % Len(RETRY_INTERVALS)) + 1]

RetryInterval(retry_count) ==
    RETRY_INTERVALS[Min(retry_count, Len(RETRY_INTERVALS) - 1) + 1]

\* faulty variant: an ip without a row is not looked up
should_retry_geo_at_NoRow(tbl, ip, t) ==
    IF ip \notin DOMAIN tbl THEN FALSE
    ELSE IF tbl[ip].geo_status \in {GEO_OK, GEO_PRIVATE} THEN FALSE
    ELSE (t - tbl[ip].geo_last_lookup) >= RetryInterval(tbl[ip].geo_retry_count)

\* faulty variant: the status of the row is not looked at
should_retry_geo_at_AnyStatus(tbl, ip, t) ==
    IF ip \notin DOMAIN tbl THEN TRUE
    ELSE (t - tbl[ip].geo_last_lookup) >= RetryInterval(tbl[ip].geo_retry_count)

\* should_retry_geo(ip) evaluated on table tbl when time.time() returns t
should_retry_geo_at(tbl, ip, t) ==
    IF ip \notin DOMAIN tbl THEN TRUE
    ELSE IF tbl[ip].geo_status \in {GEO_OK, GEO_PRIVATE} THEN FALSE
    ELSE (t - tbl[ip].geo_last_lookup) >= RetryInterval(tbl[ip].geo_retry_count)

should_retry_geo(ip) == should_retry_geo_at(peers_geo, ip, now)

----------------------------------------------------------------------------
(* Answers of the geolocation API, and what each program makes of them *)

\* dict.get(k, default)
Get(d, k, default) == IF k \in DOMAIN d THEN d[k] ELSE default

\* Python's True and False are the integers 1 and 0 (bool is a subclass of
\* int, True == 1): the flags of an answer are written 1 and 0

\* a full success answer
ApiBerlin ==
    [continent |-> "Europe", continentCode |-> "EU", country |-> "Germany",
     countryCode |-> "DE", region |-> "BE", regionName |-> "Berlin",
     city |-> "Berlin", district |-> "Mitte", zip |-> "10115", lat |-> 52,
     lon |-> 13, timezone |-> "Europe/Berlin", offset |-> 3600,
     currency |-> "EUR", isp |-> "Acme", org |-> "Acme GmbH",
     as |-> "AS64500 Acme", asname |-> "ACME", mobile |-> 0,
     proxy |-> 0, hosting |-> 1]

\* a success answer that knows the country only: the other keys are blank
ApiSparse ==
    [continent |-> "Europe", continentCode |-> "EU", country |-> "France",
     countryCode |-> "FR", region |-> "", regionName |-> "",
     city |-> "", district |-> "", zip |-> "", lat |-> 0,
     lon |-> 0, timezone |-> "", offset |-> 0,
     currency |-> "", isp |-> "", org |-> "",
     as |-> "", asname |-> "", mobile |-> 0,
     proxy |-> 0, hosting |-> 0]

\* fetch_geo_api returns None (<<>>) or the answer's dict (<<data>>)
ApiNone == <<>>
ApiAnswers == {ApiNone, <<ApiBerlin>>, <<ApiSparse>>}

\* peerlist.py geo_lookup_worker: the arguments it passes to upsert_peer_geo
ArgsOfData(data) ==
    [country |-> Get(data, "country", ""),
     country_code |-> Get(data, "countryCode", ""),
     region |-> Get(data, "region", ""),
     region_name |-> Get(data, "regionName", ""),
     city |-> Get(data, "city", ""),
     district |-> Get(data, "district", ""),
     lat |-> Get(data, "lat", 0),
     lon |-> Get(data, "lon", 0),
     isp |-> Get(data, "isp", ""),
     as_info |-> Get(data, "as", ""),
     hosting |-> IF Get(data, "hosting", 0) # 0 THEN 1 ELSE 0]

\* MBCoreServer.py save_geo_to_db: the row it writes; on a conflict every
\* column is set to the incoming value
DbRowOfData(data, t) ==
    [continent |-> Get(data, "continent", ""),
     continentCode |-> Get(data, "continentCode", ""),
     country |-> Get(data, "country", ""),
     countryCode |-> Get(data, "countryCode", ""),
     region |-> Get(data, "region", ""),
     regionName |-> Get(data, "regionName", ""),
     city |-> Get(data, "city", ""),
     district |-> Get(data, "district", ""),
     zip |-> Get(data, "zip", ""),
     lat |-> Get(data, "lat", 0),
     lon |-> Get(data, "lon", 0),
     timezone |-> Get(data, "timezone", ""),
     utc_offset |-> Get(data, "offset", 0),
     currency |-> Get(data, "currency", ""),
     isp |-> Get(data, "isp", ""),
     org |-> Get(data, "org", ""),
     as_info |-> Get(data, "as", ""),
     asname |-> Get(data, "asname", ""),
     mobile |-> IF Get(data, "mobile", 0) # 0 THEN 1 ELSE 0,
     proxy |-> IF Get(data, "proxy", 0) # 0 THEN 1 ELSE 0,
     hosting |-> IF Get(data, "hosting", 0) # 0 THEN 1 ELSE 0,
     last_updated |-> t]

save_geo_to_db(tbl, ip, data, t) ==
    [i \in DOMAIN tbl \cup {ip} |-> IF i = ip THEN DbRowOfData(data, t) ELSE tbl[i]]

\* MBCoreServer.py geo_worker: the session cache entry of a found answer;
\* data is the API's dict, or the geo.db row when from_db
CacheEntryOf(data, from_db) ==
    [status |-> "ok",
     continent |-> Get(data, "continent", ""),
     continentCode |-> Get(data, "continentCode", ""),
     country |-> Get(data, "country", ""),
     countryCode |-> Get(data, "countryCode", ""),
     region |-> Get(data, "region", ""),
     regionName |-> Get(data, "regionName", ""),
     city |-> Get(data, "city", ""),
     district |-> Get(data, "district", ""),
     zip |-> Get(data, "zip", ""),
     lat |-> Get(data, "lat", 0),
     lon |-> Get(data, "lon", 0),
     timezone |-> Get(data, "timezone", ""),
     offset |-> IF from_db THEN Get(data, "utc_offset", Null) ELSE Get(data, "offset", 0),
     currency |-> Get(data, "currency", ""),
     isp |-> Get(data, "isp", ""),
     org |-> Get(data, "org", ""),
     as |-> IF from_db THEN Get(data, "as_info", Null) ELSE Get(data, "as", ""),
     asname |-> Get(data, "asname", ""),
     mobile |-> Get(data, "mobile", 0),
     proxy |-> Get(data, "proxy", 0),
     hosting |-> Get(data, "hosting", 0)]

\* the blank entry stored with status 'unavailable' or 'private'
BlankEntry(status) ==
    [status |-> status,
     continent |-> "", continentCode |-> "", country |-> "", countryCode |-> "",
     region |-> "", regionName |-> "", city |-> "", district |-> "", zip |-> "",
     lat |-> 0, lon |-> 0, timezone |-> "", offset |-> 0, currency |-> "",
     isp |-> "", org |-> "", as |-> "", asname |-> "",
     mobile |-> 0, proxy |-> 0, hosting |-> 0]

\* server.py keeps these keys only
ServerCacheKeys ==
    {"status", "continent", "continentCode", "country", "countryCode",
     "region", "regionName", "city", "lat", "lon", "isp"}

\* the entry as the running program writes it
EntryOf(entry) ==
    IF prog = "server" THEN [k \in ServerCacheKeys |-> entry[k]] ELSE entry

----------------------------------------------------------------------------
(* Values the model draws its inputs from *)

EmptyTable == [i \in {} |-> NoGeoArgs]

\* upsert arguments built from a full API answer
BerlinArgs == ArgsOfData(ApiBerlin)

\* an answer that knows the country only: city, ISP and coordinates blank
SparseArgs == ArgsOfData(ApiSparse)

\* an answer whose JSON carries null for city and isp (data.get returns None)
NullArgs ==
    [BerlinArgs EXCEPT !.city = Null, !.isp = Null, !.hosting = 0]

GeoArgs == {NoGeoArgs, BerlinArgs, SparseArgs, NullArgs}

GeoStatuses == {GEO_OK, GEO_PRIVATE, GEO_UNAVAILABLE}

Addr(network, ip) == [network |-> network, ip |-> ip]

IPsOf(as) == { a.ip : a \in as }

Blank(x) == x = "" \/ x = Null

\* last_call.before is <<>> when the ip had no row, else <<the row before the call>>
NoCall ==
    [op |-> "none", ip |-> IP_FAILING, geo_status |-> GEO_OK, args |-> NoGeoArgs,
     before |-> <<>>, result |-> FALSE]

RowBefore(tbl, ip) == IF ip \in DOMAIN tbl THEN <<tbl[ip]>> ELSE <<>>

\* the streak history after a lookup outcome is stored for ip
StreakAfter(tbl, ip, geo_status) ==
    IF geo_status # GEO_UNAVAILABLE THEN 0
    ELSE IF ip \notin DOMAIN tbl THEN 1
    ELSE IF streak[ip] > 0 THEN streak[ip] + 1
    ELSE 0

\* history of one pending episode of an ip: queue_geo_lookup calls made for it
\* (2 stands for two or more), items put, API calls, whether the store
\* answered, whether the episode is still open (the ip pending), whether
\* it began after a lookup of the ip had completed with status OK, and the
\* time the session cache recorded the ip's last lookup as failed (-1: not)
NoEpisode ==
    [calls |-> 0, puts |-> 0, api |-> 0, from_db |-> FALSE, open |-> FALSE,
     after_ok |-> FALSE, failed_at |-> -1]

\* a lookup of ip has completed with status OK: its result is stored
LookupOk(ip) ==
    \/ ip \in DOMAIN peers_geo /\ peers_geo[ip].geo_status = GEO_OK
    \/ ip \in DOMAIN geo_cache /\ geo_cache[ip].status = "ok"

IdleWorker ==
    [pc |-> "get", ip |-> IP_FAILING, network_type |-> "ipv4", data |-> ApiNone,
     from_db |-> FALSE, save_tried |-> FALSE, save_failed |-> FALSE]

IdleThread == [pc |-> "idle", addr |-> Addr("ipv4", IP_FAILING), made |-> 0]

\* refresh_worker before its first cycle: previous_ids = set()
IdleRefresh ==
    [pc |-> "sleep", previous_ids |-> {}, current_ids |-> {}, now |-> 0, todo |-> <<>>,
     done |-> {}, seen |-> [i \in {} |-> 0], rpc_ok |-> TRUE,
     first |-> TRUE]

NoResponse == [op |-> "none", at |-> 0, body |-> <<>>, todo |-> <<>>]

----------------------------------------------------------------------------
(* The mutexes of MBCoreServer.py: what each thread does, in program order, *)
(* as far as its locks, its input and output and its waits are concerned.   *)

Acquire(l) == [kind |-> "acquire", lock |-> l]
Release(l) == [kind |-> "release", lock |-> l]

\* a step that takes no lock: "op" (memory only), "rpc" (bitcoin-cli),
\* "http" (the geolocation API), "store" (geo.db), "sleep", "wait"
Step(k) == [kind |-> k, lock |-> ""]

\* "with l:" around one operation on the guarded structure
With(l) == <<Acquire(l), Step("op"), Release(l)>>

\* queue_geo_lookup: the test and the add under pending_lock, then geo_queue.put
queue_geo_lookup_ops == With("pending_lock") \o <<Step("op")>>

\* geo_worker with the store write moved into the cache's critical section
geo_worker_ops_SaveInLock ==
    <<Step("wait"), Step("store"), Step("http"),
      Acquire("geo_cache_lock"), Step("store"), Step("op"), Release("geo_cache_lock")>>
    \o With("pending_lock") \o With("geo_pending_lock")
    \o <<Step("op"), Step("sleep")>>

\* geo_worker's loop body: geo_queue.get(timeout), get_geo_from_db,
\* fetch_geo_api, save_geo_to_db, the cache write, the discard, the count,
\* broadcast_update, time.sleep
geo_worker_ops ==
    <<Step("wait"), Step("store"), Step("http"), Step("store")>>
    \o With("geo_cache_lock") \o With("pending_lock") \o With("geo_pending_lock")
    \o <<Step("op"), Step("sleep")>>

\* refresh_worker with the connected event appended inside the map's
\* critical section
refresh_worker_ops_Nested ==
    <<Step("rpc")>> \o With("peers_lock")
    \o <<Step("rpc")>> \o With("addrman_cache_lock")
    \o <<Acquire("peer_ip_map_lock"), Step("op")>> \o With("changes_lock")
    \o <<Release("peer_ip_map_lock")>>
    \o With("geo_cache_lock") \o queue_geo_lookup_ops \o With("geo_cache_lock")
    \o With("peer_ip_map_lock") \o With("changes_lock")
    \o With("geo_pending_lock") \o With("changes_lock")
    \o <<Step("op"), Step("sleep")>>

\* refresh_worker's loop body: get_peer_info, current_peers, the addrman
\* refresh, and for a peer the map entry, the connected event,
\* get_cached_geo, queue_geo_lookup, set_cached_geo_private; then the pop and
\* the disconnected event, the count, the prune, broadcast_update and
\* time.sleep.  A branch not taken skips whole critical sections.
refresh_worker_ops ==
    <<Step("rpc")>> \o With("peers_lock")
    \o <<Step("rpc")>> \o With("addrman_cache_lock")
    \o With("peer_ip_map_lock") \o With("changes_lock")
    \o With("geo_cache_lock") \o queue_geo_lookup_ops \o With("geo_cache_lock")
    \o With("peer_ip_map_lock") \o With("changes_lock")
    \o With("geo_pending_lock") \o With("changes_lock")
    \o <<Step("op"), Step("sleep")>>

\* /api/peers: the snapshot copy, then get_cached_geo for a peer
api_peers_ops == With("peers_lock") \o With("geo_cache_lock") \o <<Step("op")>>

\* /api/changes: the copy of recent_changes
api_changes_ops == With("changes_lock") \o <<Step("op")>>

LockPrograms ==
    [geo_worker |-> geo_worker_ops, refresh_worker |-> refresh_worker_ops,
     api_peers |-> api_peers_ops, api_changes |-> api_changes_ops]

\* every thread at the start of its program, holding nothing
IdleLocks == [t \in DOMAIN LockPrograms |-> [pc |-> 1, held |-> {}]]

\* the web state at start: no snapshot, no change, no consumer, the event clear
InitWebIdle ==
    /\ current_peers = <<>>
    /\ refresh = IdleRefresh
    /\ peer_ip_map = EmptyTable
    /\ recent_changes = <<>>
    /\ sse_update_event = FALSE
    /\ last_update_type = "connected"
    /\ consumers = EmptyTable
    /\ response = NoResponse
    /\ owed = {}
    /\ missed = {}
    /\ rate = "none"
    /\ stop_flag = FALSE
    /\ locks = IdleLocks

\* the consumers that are connected: their generator is in its loop
Connected == { c \in DOMAIN consumers : consumers[c].pc # "closed" }

\* faulty variant: the type is kept and the event is left as it is
BroadcastUpdate_NoSet(event_type) ==
    /\ last_update_type' = event_type
    /\ sse_update_event' = sse_update_event
    /\ owed' = owed \cup Connected

\* broadcast_update(event_type, data): the type is kept and the event set
BroadcastUpdate(event_type) ==
    /\ last_update_type' = event_type
    /\ sse_update_event' = TRUE
    /\ owed' = owed \cup Connected

----------------------------------------------------------------------------
(* The lookup dispatcher: queue_geo_lookup, the same code in the three     *)
(* programs.  Its critical section and its queue.put are two steps.        *)

\* faulty variant: the membership test is missing
AlreadyPending_Never(ip) == FALSE

\* faulty variant: only the items still waiting in the queue count as pending
AlreadyPending_QueueOnly(ip) ==
    \E i \in 1..Len(geo_queue) : geo_queue[i].ip = ip

\* faulty variant: an ip the worker has taken off the queue no longer counts
AlreadyPending_NotTaken(ip) ==
    ip \in pending_lookups /\ ~(worker.ip = ip /\ worker.pc \notin {"get", "take", "stopped"})

\* "if ip in pending_lookups: return"
AlreadyPending(ip) == ip \in pending_lookups

QueueGeoLookupLock(t) ==
    LET ip == threads[t].addr.ip IN
    /\ threads[t].pc = "queue"
    /\ IF AlreadyPending(ip)
       THEN /\ threads' = [threads EXCEPT ![t].pc = "idle"]
            /\ UNCHANGED pending_lookups
            /\ hist' = [hist EXCEPT ![ip].calls = Min(@ + 1, 2)]
       ELSE /\ pending_lookups' = pending_lookups \cup {ip}
            /\ threads' = [threads EXCEPT ![t].pc = "put"]
            /\ hist' = [hist EXCEPT ![ip] =
                          IF ip \in pending_lookups
                          THEN [@ EXCEPT !.calls = Min(@ + 1, 2)]
                          ELSE [NoEpisode EXCEPT !.calls = 1, !.open = TRUE,
                                                 !.after_ok = LookupOk(ip),
                                                 !.failed_at = hist[ip].failed_at]]
    /\ last_call' = [NoCall EXCEPT !.op = "queue_geo_lookup", !.ip = ip,
                                   !.result = ip \in pending_lookups]
    /\ UNCHANGED <<webVars, rate, prog, addrs, now, storeVars, geo_queue, worker, streak>>

QueueGeoLookupPut(t) ==
    LET a == threads[t].addr IN
    /\ threads[t].pc = "put"
    /\ geo_queue' = Append(geo_queue, [ip |-> a.ip, network_type |-> a.network])
    /\ threads' = [threads EXCEPT ![t].pc = "idle"]
    /\ hist' = [hist EXCEPT ![a.ip].puts = Min(@ + 1, 2)]
    /\ UNCHANGED <<webVars, rate, prog, addrs, now, storeVars, pending_lookups, worker,
                   last_call, streak>>

----------------------------------------------------------------------------
(* The lookup worker: geo_lookup_worker (peerlist.py), geo_worker (web)    *)

\* a loop head that never sees the stop signal
StopObserved_Never == FALSE

\* "while not stop_flag.is_set()" at the head of a loop
StopObserved == stop_flag

\* geo_queue.get(timeout=0.5); on queue.Empty the loop continues.  At "get"
\* the worker is at its loop head; at "take" it was inside geo_queue.get
\* when the stop signal was set
WorkerGet ==
    /\ worker.pc = "take" \/ (worker.pc = "get" /\ ~StopObserved)
    /\ geo_queue # <<>>
    /\ worker' = [pc |-> IF prog = "MBCore" THEN "db" ELSE "fetch",
                  ip |-> Head(geo_queue).ip,
                  network_type |-> Head(geo_queue).network_type,
                  data |-> ApiNone, from_db |-> FALSE, save_tried |-> FALSE,
                  save_failed |-> FALSE]
    /\ geo_queue' = Tail(geo_queue)
    /\ UNCHANGED <<webVars, rate, prog, addrs, now, storeVars, pending_lookups, threads,
                   last_call, streak, hist>>

\* MBCoreServer.py: db_data = get_geo_from_db(ip); a row ends the lookup,
\* no row, a disabled store or a failed read (except: return None) go on to the API
WorkerDb ==
    /\ prog = "MBCore"
    /\ worker.pc = "db"
    /\ \/ /\ geo_db_enabled
          /\ worker.ip \in DOMAIN geo_db
          /\ worker' = [worker EXCEPT !.pc = "cache", !.data = <<geo_db[worker.ip]>>,
                                      !.from_db = TRUE]
          /\ hist' = [hist EXCEPT ![worker.ip].from_db = TRUE]
       \/ /\ ~geo_db_enabled \/ worker.ip \notin DOMAIN geo_db
          /\ worker' = [worker EXCEPT !.pc = "fetch"]
          /\ UNCHANGED hist
       \/ /\ geo_db_enabled
          /\ worker.ip \in DOMAIN geo_db
          /\ worker' = [worker EXCEPT !.pc = "fetch"]
          /\ UNCHANGED hist
    /\ UNCHANGED <<webVars, rate, prog, addrs, now, storeVars, pending_lookups, geo_queue,
                   threads, last_call, streak>>

\* the session cache written straight after the API answer
AfterFetch_SkipSave(data) ==
    IF prog = "peerlist" THEN "upsert" ELSE "cache"

\* faulty variant: the web worker removes the pending mark without writing
\* the session cache
AfterFetch_SkipCache(data) ==
    IF prog = "peerlist" THEN "upsert" ELSE "discard"

\* faulty variant: after a failed lookup the web worker goes back to its
\* loop head with the item dropped
AfterFetch_DropFailed(data) ==
    IF prog = "peerlist" THEN "upsert"
    ELSE IF data = ApiNone THEN "get"
    ELSE IF prog = "MBCore" THEN "save"
    ELSE "cache"

\* the position after data = fetch_geo_api(ip)
AfterFetch(data) ==
    IF prog = "peerlist" THEN "upsert"
    ELSE IF prog = "MBCore" /\ data # ApiNone THEN "save"
    ELSE "cache"

\* data = fetch_geo_api(ip): the external call; it answers or fails
WorkerFetch(answer) ==
    /\ worker.pc = "fetch"
    /\ worker' = [worker EXCEPT !.pc = AfterFetch(answer), !.data = answer]
    /\ hist' = [hist EXCEPT ![worker.ip].api = Min(@ + 1, 2)]
    /\ last_call' = [NoCall EXCEPT !.op = "fetch_geo_api", !.ip = worker.ip,
                                   !.result = answer # ApiNone]
    /\ rate' = IF rate \in {"called", "unslept"} THEN "unslept" ELSE "called"
    /\ UNCHANGED <<webVars, prog, addrs, now, storeVars, pending_lookups, geo_queue,
                   threads, streak>>

\* the status and arguments of the worker's upsert_peer_geo call
WorkerStatus == IF worker.data # ApiNone THEN GEO_OK ELSE GEO_UNAVAILABLE
WorkerArgs == IF worker.data # ApiNone THEN ArgsOfData(worker.data[1]) ELSE NoGeoArgs

\* peerlist.py: upsert_peer_geo(ip, network_type, GEO_OK, ...) or
\* upsert_peer_geo(ip, network_type, GEO_UNAVAILABLE)
WorkerUpsert ==
    /\ prog = "peerlist"
    /\ worker.pc = "upsert"
    /\ peers_geo' = upsert_peer_geo(peers_geo, worker.ip, worker.network_type,
                                    WorkerStatus, WorkerArgs, now)
    /\ streak' = [streak EXCEPT ![worker.ip] =
                    StreakAfter(peers_geo, worker.ip, WorkerStatus)]
    /\ last_call' = [op |-> "upsert_peer_geo", ip |-> worker.ip,
                     geo_status |-> WorkerStatus, args |-> WorkerArgs,
                     before |-> RowBefore(peers_geo, worker.ip), result |-> FALSE]
    /\ worker' = [worker EXCEPT !.pc = "discard"]
    /\ UNCHANGED <<webVars, rate, prog, addrs, now, geo_db_enabled, geo_db, geo_cache,
                   pending_lookups, geo_queue, threads, hist>>

\* an exception that ends the thread function
AfterRaise_Dies == "stopped"

\* peerlist.py: "except Exception: pass" at the end of the loop body: the
\* worker is back at its loop head
AfterRaise == "get"

\* peerlist.py: the upsert raises (sqlite3 error); "except Exception: pass"
\* takes the worker back to the loop head
WorkerUpsertRaises ==
    /\ prog = "peerlist"
    /\ worker.pc = "upsert"
    /\ worker' = [worker EXCEPT !.pc = AfterRaise, !.save_failed = TRUE]
    /\ UNCHANGED <<webVars, rate, prog, addrs, now, storeVars, pending_lookups, geo_queue,
                   threads, last_call, streak, hist>>

\* MBCoreServer.py: save_geo_to_db(ip, data); it returns at once when the
\* store is disabled, and an error of the write is printed and swallowed
WorkerSave ==
    /\ prog = "MBCore"
    /\ worker.pc = "save"
    /\ \/ /\ geo_db_enabled
          /\ geo_db' = save_geo_to_db(geo_db, worker.ip, worker.data[1], now)
          /\ worker' = [worker EXCEPT !.pc = "cache", !.save_tried = TRUE]
       \/ /\ ~geo_db_enabled
          /\ UNCHANGED geo_db
          /\ worker' = [worker EXCEPT !.pc = "cache", !.save_tried = TRUE]
       \/ /\ geo_db_enabled
          /\ UNCHANGED geo_db
          /\ worker' = [worker EXCEPT !.pc = "cache", !.save_tried = TRUE,
                                      !.save_failed = TRUE]
    /\ UNCHANGED <<webVars, rate, prog, addrs, now, peers_geo, geo_db_enabled, geo_cache,
                   pending_lookups, geo_queue, threads, last_call, streak, hist>>

\* an entry that is ok only when the store write went through
WorkerEntry_NeedsStore ==
    IF worker.data # ApiNone /\ ~worker.save_failed
    THEN EntryOf(CacheEntryOf(worker.data[1], worker.from_db))
    ELSE EntryOf(BlankEntry("unavailable"))

\* the session cache entry the worker writes
WorkerEntry ==
    IF worker.data # ApiNone
    THEN EntryOf(CacheEntryOf(worker.data[1], worker.from_db))
    ELSE EntryOf(BlankEntry("unavailable"))

\* web servers: with geo_cache_lock: geo_cache[ip] = {...}
WorkerCache ==
    /\ prog \in {"MBCore", "server"}
    /\ worker.pc = "cache"
    /\ worker' = [worker EXCEPT !.pc = "discard"]
    /\ geo_cache' = [i \in DOMAIN geo_cache \cup {worker.ip} |->
                        IF i = worker.ip THEN WorkerEntry ELSE geo_cache[i]]
    /\ hist' = [hist EXCEPT ![worker.ip].failed_at =
                                IF worker.data = ApiNone THEN now ELSE -1]
    /\ UNCHANGED <<webVars, rate, prog, addrs, now, peers_geo, geo_db_enabled, geo_db,
                   pending_lookups, geo_queue, threads, last_call, streak>>

\* the delay taken after every item
SleepsAfter_Always == TRUE

\* "Only delay if we called the API"; peerlist.py and server.py always sleep
SleepsAfter == ~(prog = "MBCore" /\ worker.from_db)

\* with pending_lock: pending_lookups.discard(ip)
WorkerDiscard ==
    /\ worker.pc = "discard"
    /\ pending_lookups' = pending_lookups \ {worker.ip}
    /\ hist' = [hist EXCEPT ![worker.ip].open = FALSE]
    /\ worker' = [worker EXCEPT !.pc = IF prog \in {"MBCore", "server"} THEN "broadcast"
                                     ELSE "sleep"]
    /\ UNCHANGED <<webVars, rate, prog, addrs, now, storeVars, geo_queue, threads, last_call,
                   streak>>

\* web servers: broadcast_update('geo_update', {'ip': ip})
WorkerBroadcast ==
    /\ prog \in {"MBCore", "server"}
    /\ worker.pc = "broadcast"
    /\ BroadcastUpdate("geo_update")
    /\ worker' = [worker EXCEPT !.pc = IF SleepsAfter THEN "sleep" ELSE "get"]
    /\ UNCHANGED <<trackVars, consumers, response, missed, stop_flag, locks, rate, prog, addrs, now,
                   storeVars, pending_lookups, geo_queue, threads, last_call, streak,
                   hist>>

\* time.sleep(GEO_API_DELAY)
WorkerSleep ==
    /\ worker.pc = "sleep"
    /\ worker' = [worker EXCEPT !.pc = "get"]
    /\ rate' = IF rate = "called" THEN "slept" ELSE rate
    /\ UNCHANGED <<webVars, prog, addrs, now, storeVars, pending_lookups, geo_queue,
                   threads, last_call, streak, hist>>

\* the geo_queue.get that was under way at the stop signal times out
WorkerTimeout ==
    /\ worker.pc = "take"
    /\ geo_queue = <<>>
    /\ worker' = [worker EXCEPT !.pc = "get"]
    /\ UNCHANGED <<webVars, rate, prog, addrs, now, storeVars, pending_lookups, geo_queue,
                   threads, last_call, streak, hist>>

\* the loop head sees the stop signal: the thread function returns
WorkerStop ==
    /\ worker.pc = "get"
    /\ StopObserved
    /\ worker' = [worker EXCEPT !.pc = "stopped"]
    /\ UNCHANGED <<webVars, rate, prog, addrs, now, storeVars, pending_lookups, geo_queue,
                   threads, last_call, streak, hist>>

WorkerStep(answers) ==
    \/ WorkerGet
    \/ \E answer \in answers : WorkerFetch(answer)
    \/ WorkerDiscard
    \/ WorkerBroadcast
    \/ WorkerSleep

----------------------------------------------------------------------------
(* Specification SpecStore: the store functions of peerlist.py and         *)
(* server.py called with any arguments on any stored row.                  *)

StoreAddrs == {Addr("ipv4", IP_FAILING)}
StoreIPs == IPsOf(StoreAddrs)

\* rows a peers.db left by earlier runs can hold
InitRows ==
    { [network_type |-> "ipv4", geo_status |-> st, geo_retry_count |-> rc,
       geo_last_lookup |-> 0,
       country |-> a.country, country_code |-> a.country_code,
       region |-> a.region, region_name |-> a.region_name,
       city |-> a.city, district |-> a.district, lat |-> a.lat, lon |-> a.lon,
       isp |-> a.isp, as_info |-> a.as_info, hosting |-> a.hosting,
       first_seen |-> 0, last_seen |-> 0] :
      st \in GeoStatuses, rc \in 0..MaxRetry, a \in {NoGeoArgs, BerlinArgs} }

\* no thread runs, nothing is cached, queued or pending
InitQuiet ==
    /\ geo_db_enabled = FALSE
    /\ geo_db = EmptyTable
    /\ geo_cache = EmptyTable
    /\ pending_lookups = {}
    /\ geo_queue = <<>>
    /\ worker = IdleWorker
    /\ last_call = NoCall

InitStore ==
    /\ prog = "store"
    /\ addrs = StoreAddrs
    /\ now = 0
    /\ \/ peers_geo = EmptyTable
       \/ \E r \in InitRows : peers_geo = [i \in StoreIPs |-> r]
    /\ InitQuiet
    /\ threads = [t \in {} |-> IdleThread]
    /\ streak = [i \in StoreIPs |-> 0]
    /\ hist = [i \in StoreIPs |-> NoEpisode]
    /\ InitWebIdle

StoreUpsert(ip, network_type, geo_status, a) ==
    /\ ip \in DOMAIN peers_geo => peers_geo[ip].geo_retry_count < MaxRetry
    /\ peers_geo' = upsert_peer_geo(peers_geo, ip, network_type, geo_status, a, now)
    /\ last_call' = [op |-> "upsert_peer_geo", ip |-> ip, geo_status |-> geo_status,
                     args |-> a, before |-> RowBefore(peers_geo, ip),
                     result |-> FALSE]
    /\ streak' = [streak EXCEPT ![ip] = StreakAfter(peers_geo, ip, geo_status)]
    /\ UNCHANGED <<webVars, rate, prog, addrs, now, geo_db_enabled, geo_db, geo_cache, pipeVars, hist>>

StoreUpsertServer(ip, network_type, geo_status, a) ==
    /\ peers_geo' = server_upsert_peer_geo(peers_geo, ip, network_type, geo_status, a, now)
    /\ last_call' = [op |-> "server.upsert_peer_geo", ip |-> ip,
                     geo_status |-> geo_status, args |-> a,
                     before |-> RowBefore(peers_geo, ip), result |-> FALSE]
    /\ streak' = [streak EXCEPT ![ip] = 0]
    /\ UNCHANGED <<webVars, rate, prog, addrs, now, geo_db_enabled, geo_db, geo_cache, pipeVars, hist>>

StoreShouldRetry(ip) ==
    /\ last_call' = [op |-> "should_retry_geo", ip |-> ip, geo_status |-> GEO_OK,
                     args |-> NoGeoArgs, before |-> RowBefore(peers_geo, ip),
                     result |-> should_retry_geo(ip)]
    /\ UNCHANGED <<webVars, rate, prog, addrs, now, storeVars, pipeVars, streak, hist>>

StoreTick ==
    /\ now < MaxStoreTicks * TickStep
    /\ now' = now + TickStep
    /\ UNCHANGED <<webVars, rate, prog, addrs, storeVars, pipeVars, last_call, streak, hist>>

NextStore ==
    \/ \E ip \in StoreIPs, st \in GeoStatuses, a \in GeoArgs :
          StoreUpsert(ip, "ipv4", st, a)
    \/ \E ip \in StoreIPs, st \in GeoStatuses, a \in GeoArgs :
          StoreUpsertServer(ip, "ipv4", st, a)
    \/ \E ip \in StoreIPs : StoreShouldRetry(ip)
    \/ StoreTick

SpecStore == InitStore /\ [][NextStore]_vars

----------------------------------------------------------------------------
(* Specification SpecGeoDb: the geo.db functions of MBCoreServer.py called *)
(* with any API answer on any stored row.                                  *)

GeoDbAddrs == {Addr("ipv4", IP_BERLIN), Addr("ipv4", IP_FAILING)}
GeoDbIPs == IPsOf(GeoDbAddrs)

\* get_geo_from_db(ip) on table tbl: None (<<>>) or the row's dict
get_geo_from_db(tbl, ip) ==
    IF ~geo_db_enabled THEN <<>>
    ELSE IF ip \in DOMAIN tbl THEN <<tbl[ip]>>
    ELSE <<>>

InitGeoDb ==
    /\ prog = "geodb"
    /\ addrs = GeoDbAddrs
    /\ now = 0
    /\ peers_geo = EmptyTable
    /\ geo_db_enabled \in BOOLEAN
    /\ geo_db \in {EmptyTable, [i \in {IP_BERLIN} |-> DbRowOfData(ApiBerlin, 0)]}
    /\ geo_cache = EmptyTable
    /\ pending_lookups = {}
    /\ geo_queue = <<>>
    /\ worker = IdleWorker
    /\ last_call = NoCall
    /\ threads = [t \in {} |-> IdleThread]
    /\ streak = [i \in GeoDbIPs |-> 0]
    /\ hist = [i \in GeoDbIPs |-> NoEpisode]
    /\ InitWebIdle

\* save_geo_to_db(ip, data): nothing when the store is disabled, the upsert
\* otherwise, or an error of the write that is printed and swallowed
GeoDbSave(ip, data) ==
    /\ \/ /\ geo_db_enabled
          /\ geo_db' = save_geo_to_db(geo_db, ip, data, now)
          /\ last_call' = [op |-> "save_geo_to_db", ip |-> ip, geo_status |-> GEO_OK,
                           args |-> data, before |-> RowBefore(geo_db, ip),
                           result |-> TRUE]
       \/ /\ ~geo_db_enabled
          /\ UNCHANGED geo_db
          /\ last_call' = [op |-> "save_geo_to_db", ip |-> ip, geo_status |-> GEO_OK,
                           args |-> data, before |-> RowBefore(geo_db, ip),
                           result |-> FALSE]
       \/ /\ geo_db_enabled
          /\ UNCHANGED geo_db
          /\ last_call' = [op |-> "save_geo_to_db", ip |-> ip, geo_status |-> GEO_OK,
                           args |-> data, before |-> RowBefore(geo_db, ip),
                           result |-> FALSE]
    /\ UNCHANGED <<webVars, rate, prog, addrs, now, peers_geo, geo_db_enabled, geo_cache,
                   pipeVars, streak, hist>>

GeoDbGet(ip) ==
    /\ last_call' = [op |-> "get_geo_from_db", ip |-> ip, geo_status |-> GEO_OK,
                     args |-> NoGeoArgs, before |-> RowBefore(geo_db, ip),
                     result |-> get_geo_from_db(geo_db, ip) # <<>>]
    /\ UNCHANGED <<webVars, rate, prog, addrs, now, storeVars, pipeVars, streak, hist>>

NextGeoDb ==
    \/ \E ip \in GeoDbIPs, data \in {ApiBerlin, ApiSparse} : GeoDbSave(ip, data)
    \/ \E ip \in GeoDbIPs : GeoDbGet(ip)
    \/ StoreTick

SpecGeoDb == InitGeoDb /\ [][NextGeoDb]_vars

----------------------------------------------------------------------------
(* Specification SpecQueue: the dispatcher and the worker of each program  *)
(* under callers that call queue_geo_lookup at any moment.                 *)

QueueAddrs == {Addr("ipv4", IP_BERLIN), Addr("ipv4", IP_FAILING)}
Callers == {"caller1", "caller2"}

InitQueue ==
    /\ prog \in {"peerlist", "server", "MBCore"}
    /\ addrs = QueueAddrs
    /\ now = 0
    /\ peers_geo = EmptyTable
    /\ geo_db_enabled \in (IF prog = "MBCore" THEN BOOLEAN ELSE {FALSE})
    /\ geo_db \in (IF geo_db_enabled
                   THEN {EmptyTable, [i \in {IP_BERLIN} |-> DbRowOfData(ApiBerlin, 0)]}
                   ELSE {EmptyTable})
    /\ geo_cache = EmptyTable
    /\ pending_lookups = {}
    /\ geo_queue = <<>>
    /\ worker = IdleWorker
    /\ last_call = NoCall
    /\ threads = [t \in Callers |-> IdleThread]
    /\ streak = [i \in IPsOf(QueueAddrs) |-> 0]
    /\ hist = [i \in IPsOf(QueueAddrs) |-> NoEpisode]
    /\ InitWebIdle

\* a caller calls queue_geo_lookup(ip, network_type)
CallerCall(t, a) ==
    /\ threads[t].pc = "idle"
    /\ threads[t].made < MaxCalls
    /\ threads' = [threads EXCEPT ![t] = [pc |-> "queue", addr |-> a, made |-> @.made + 1]]
    /\ UNCHANGED <<webVars, rate, prog, addrs, now, storeVars, pending_lookups, geo_queue,
                   worker, last_call, streak, hist>>

NextQueue ==
    \/ \E t \in Callers, a \in QueueAddrs : CallerCall(t, a)
    \/ \E t \in Callers : QueueGeoLookupLock(t)
    \/ \E t \in Callers : QueueGeoLookupPut(t)
    \/ WorkerStep({ApiNone, <<ApiBerlin>>})
    \/ WorkerDb
    \/ WorkerUpsert
    \/ WorkerUpsertRaises
    \/ WorkerSave
    \/ WorkerCache

SpecQueue == InitQueue /\ [][NextQueue]_vars

----------------------------------------------------------------------------
(* The poller: process_peers (peerlist.py) and the peer loop of            *)
(* refresh_worker (web servers), one peer of the snapshot at a time.       *)

Poller == "poller"

\* the loop takes the next peer of the snapshot: its network_type and ip
PollerNextPeer(a) ==
    /\ threads[Poller].pc = "idle"
    /\ threads' = [threads EXCEPT ![Poller].addr = a,
                     ![Poller].pc = IF prog # "peerlist" THEN "cached"
                                    ELSE IF is_public_address(a.network, a.ip) THEN "geo"
                                    ELSE "private_geo"]
    /\ UNCHANGED <<webVars, rate, prog, addrs, now, storeVars, pending_lookups, geo_queue,
                   worker, last_call, streak, hist>>

\* peerlist.py: geo = get_peer_geo(ip); "if not geo or ..."
PollerGetGeo ==
    /\ prog = "peerlist"
    /\ threads[Poller].pc = "geo"
    /\ threads' = [threads EXCEPT ![Poller].pc =
                     IF threads[Poller].addr.ip \notin DOMAIN peers_geo
                     THEN "queue" ELSE "retry"]
    /\ UNCHANGED <<webVars, rate, prog, addrs, now, storeVars, pending_lookups, geo_queue,
                   worker, last_call, streak, hist>>

\* peerlist.py: "... or should_retry_geo(ip)", which reads the row again
PollerShouldRetry ==
    /\ prog = "peerlist"
    /\ threads[Poller].pc = "retry"
    /\ threads' = [threads EXCEPT ![Poller].pc =
                     IF should_retry_geo(threads[Poller].addr.ip)
                     THEN "queue" ELSE "seen"]
    /\ UNCHANGED <<webVars, rate, prog, addrs, now, storeVars, pending_lookups, geo_queue,
                   worker, last_call, streak, hist>>

\* peerlist.py: update_peer_seen(ip)
PollerSeen ==
    /\ prog = "peerlist"
    /\ threads[Poller].pc = "seen"
    /\ peers_geo' = [i \in DOMAIN peers_geo |->
                       IF i = threads[Poller].addr.ip
                       THEN [peers_geo[i] EXCEPT !.last_seen = now]
                       ELSE peers_geo[i]]
    /\ threads' = [threads EXCEPT ![Poller].pc = "idle"]
    /\ UNCHANGED <<webVars, rate, prog, addrs, now, geo_db_enabled, geo_db, geo_cache,
                   pending_lookups, geo_queue, worker, last_call, streak, hist>>

\* peerlist.py, private network: geo = get_peer_geo(ip); "if not geo"
PollerPrivateGet ==
    /\ prog = "peerlist"
    /\ threads[Poller].pc = "private_geo"
    /\ threads' = [threads EXCEPT ![Poller].pc =
                     IF threads[Poller].addr.ip \notin DOMAIN peers_geo
                     THEN "private_upsert" ELSE "idle"]
    /\ UNCHANGED <<webVars, rate, prog, addrs, now, storeVars, pending_lookups, geo_queue,
                   worker, last_call, streak, hist>>

\* peerlist.py: upsert_peer_geo(ip, network_type, GEO_PRIVATE)
PollerPrivateUpsert ==
    LET a == threads[Poller].addr IN
    /\ prog = "peerlist"
    /\ threads[Poller].pc = "private_upsert"
    /\ peers_geo' = upsert_peer_geo(peers_geo, a.ip, a.network, GEO_PRIVATE,
                                    NoGeoArgs, now)
    /\ streak' = [streak EXCEPT ![a.ip] = StreakAfter(peers_geo, a.ip, GEO_PRIVATE)]
    /\ last_call' = [op |-> "upsert_peer_geo", ip |-> a.ip,
                     geo_status |-> GEO_PRIVATE, args |-> NoGeoArgs,
                     before |-> RowBefore(peers_geo, a.ip), result |-> FALSE]
    /\ threads' = [threads EXCEPT ![Poller].pc = "idle"]
    /\ UNCHANGED <<webVars, rate, prog, addrs, now, geo_db_enabled, geo_db, geo_cache,
                   pending_lookups, geo_queue, worker, hist>>

\* web servers: cached = get_cached_geo(ip); "if cached is None:" then
\* "if is_public_address(network_type, ip):"
PollerCached ==
    LET a == threads[Poller].addr IN
    /\ prog \in {"MBCore", "server"}
    /\ threads[Poller].pc = "cached"
    /\ threads' = [threads EXCEPT ![Poller].pc =
                     IF a.ip \in DOMAIN geo_cache THEN "idle"
                     ELSE IF is_public_address(a.network, a.ip) THEN "queue"
                     ELSE "set_private"]
    /\ UNCHANGED <<webVars, rate, prog, addrs, now, storeVars, pending_lookups, geo_queue,
                   worker, last_call, streak, hist>>

\* web servers: set_cached_geo_private(ip)
PollerSetPrivate ==
    LET a == threads[Poller].addr IN
    /\ prog \in {"MBCore", "server"}
    /\ threads[Poller].pc = "set_private"
    /\ geo_cache' = [i \in DOMAIN geo_cache \cup {a.ip} |->
                       IF i = a.ip THEN EntryOf(BlankEntry("private"))
                       ELSE geo_cache[i]]
    /\ threads' = [threads EXCEPT ![Poller].pc = "idle"]
    /\ UNCHANGED <<webVars, rate, prog, addrs, now, peers_geo, geo_db_enabled, geo_db,
                   pending_lookups, geo_queue, worker, last_call, streak, hist>>

\* the clock advances
Tick ==
    /\ now < MaxTicks * TickStep
    /\ now' = now + TickStep
    /\ UNCHANGED <<webVars, rate, prog, addrs, storeVars, pipeVars, last_call, streak, hist>>

----------------------------------------------------------------------------
(* Specification SpecPoll: each program with its polling thread and its    *)
(* worker thread, over peers of every address class.                       *)

PeerAddrs ==
    { Addr("ipv4", IP_TEN), Addr("ipv4", IP_172_16),
      Addr("ipv4", IP_172_32), Addr("ipv4", IP_192_168), Addr("ipv4", IP_LOOPBACK),
      Addr("ipv4", IP_LOCALHOST), Addr("ipv6", IP_LINKLOCAL),
      Addr("ipv6", IP_LOOPBACK6), Addr("ipv6", IP_V6), Addr("onion", IP_ONION),
      Addr("i2p", IP_I2P), Addr("cjdns", IP_CJDNS) }

\* the node's peers: one that geolocates and one of any class
InitPoll ==
    /\ prog \in {"peerlist", "server", "MBCore"}
    /\ \E a \in PeerAddrs : addrs = {Addr("ipv4", IP_BERLIN), a}
    /\ now = 0
    /\ peers_geo = EmptyTable
    /\ geo_db_enabled \in (IF prog = "MBCore" THEN BOOLEAN ELSE {FALSE})
    /\ geo_db = EmptyTable
    /\ geo_cache = EmptyTable
    /\ pending_lookups = {}
    /\ geo_queue = <<>>
    /\ worker = IdleWorker
    /\ last_call = NoCall
    /\ threads = [t \in {Poller} |-> IdleThread]
    /\ streak = [i \in IPsOf(addrs) |-> 0]
    /\ hist = [i \in IPsOf(addrs) |-> NoEpisode]
    /\ InitWebIdle

PollerStep ==
    \/ \E a \in addrs : PollerNextPeer(a)
    \/ PollerGetGeo
    \/ PollerShouldRetry
    \/ PollerSeen
    \/ PollerPrivateGet
    \/ PollerPrivateUpsert
    \/ PollerCached
    \/ PollerSetPrivate
    \/ QueueGeoLookupLock(Poller)
    \/ QueueGeoLookupPut(Poller)

NextPoll ==
    \/ PollerStep
    \/ WorkerStep({ApiNone, <<ApiBerlin>>})
    \/ WorkerDb
    \/ WorkerUpsert
    \/ WorkerUpsertRaises
    \/ WorkerSave
    \/ WorkerCache
    \/ Tick

SpecPoll == InitPoll /\ [][NextPoll]_vars

----------------------------------------------------------------------------
(* The web server: refresh_worker's cycle, the read calls and the SSE      *)
(* generators of /api/events (MBCoreServer.py)                             *)

geoVars == <<prog, addrs, storeVars, pipeVars, last_call, streak, hist, rate, stop_flag, locks>>

\* a peer of the snapshot after extract_ip, extract_port and get_network_type
Peer41 == [id |-> "41", network |-> "onion", ip |-> IP_ONION, port |-> ""]
Peer42 == [id |-> "42", network |-> "ipv4", ip |-> IP_BERLIN, port |-> "8333"]

\* the peer lists getpeerinfo can answer
Snapshots == {<<>>, <<Peer41>>, <<Peer42>>, <<Peer41, Peer42>>}

\* what get_peer_info() can return: the parsed answer, or [] when the
\* command fails, times out or answers something that is not JSON
GetPeerInfoResults ==
    {[ok |-> TRUE, peers |-> p] : p \in Snapshots} \cup {[ok |-> FALSE, peers |-> <<>>]}

\* {'ip': ip, 'port': port, 'network': network_type}
PeerInfo(p) == [ip |-> p.ip, port |-> p.port, network |-> p.network]

\* the defaults of peer_info.get: f'peer#{pid}', '', '?'
PoppedInfo_Default(pid) ==
    [ip |-> [sep |-> "#", parts |-> <<"peer", pid>>], port |-> "", network |-> "?"]

\* peer_ip_map.pop(pid, {}) read with its .get defaults
PoppedInfo(pid) ==
    IF pid \in DOMAIN peer_ip_map THEN peer_ip_map[pid]
    ELSE PoppedInfo_Default(pid)

ChangeEvent(t, type, peer) == [time |-> t, type |-> type, peer |-> peer]

\* peers = get_peer_info(); current_peers = peers; current_ids = set(); now = time.time()
RefreshSnapshot(result) ==
    /\ refresh.pc = "snapshot"
    /\ ~StopObserved
    /\ current_peers' = result.peers
    /\ refresh' = [refresh EXCEPT !.pc = "peer", !.current_ids = {}, !.now = now,
                                  !.todo = result.peers, !.done = {},
                                  !.rpc_ok = result.ok]
    /\ UNCHANGED <<geoVars, now, peer_ip_map, recent_changes, sseVars, response,
                   owed, missed>>

\* current_ids.add(peer_id); peer_ip_map[peer_id] = {...}
RefreshPeerMap ==
    LET p == Head(refresh.todo) IN
    /\ refresh.pc = "peer"
    /\ refresh.todo # <<>>
    /\ peer_ip_map' = [i \in DOMAIN peer_ip_map \cup {p.id} |->
                         IF i = p.id THEN PeerInfo(p) ELSE peer_ip_map[i]]
    /\ refresh' = [refresh EXCEPT
                     !.pc = "connected",
                     !.current_ids = @ \cup {p.id},
                     !.seen = [i \in DOMAIN @ \cup {p.id} |->
                                 IF i = p.id THEN PeerInfo(p) ELSE @[i]]]
    /\ UNCHANGED <<geoVars, now, current_peers, recent_changes, sseVars, response,
                   owed, missed>>

\* "if peer_id not in previous_ids: if previous_ids:" the connected event;
\* then the thread goes on to cached = get_cached_geo(ip)
RefreshPeerConnected ==
    LET p == Head(refresh.todo) IN
    /\ refresh.pc = "connected"
    /\ recent_changes' =
          IF p.id \notin refresh.previous_ids /\ refresh.previous_ids # {}
          THEN Append(recent_changes, ChangeEvent(refresh.now, "connected", PeerInfo(p)))
          ELSE recent_changes
    /\ refresh' = [refresh EXCEPT !.pc = "geo"]
    /\ threads' = [threads EXCEPT ![Poller].pc = "cached",
                                  ![Poller].addr = Addr(p.network, p.ip)]
    /\ UNCHANGED <<prog, addrs, now, storeVars, pending_lookups, geo_queue, worker,
                   last_call, streak, hist, rate, stop_flag, locks, current_peers, peer_ip_map,
                   sseVars,
                   response, owed, missed>>

\* the geo part of the peer is done: the loop goes to the next peer
RefreshPeerNext ==
    /\ refresh.pc = "geo"
    /\ threads[Poller].pc = "idle"
    /\ refresh' = [refresh EXCEPT !.pc = "peer", !.todo = Tail(@)]
    /\ UNCHANGED <<geoVars, now, current_peers, peer_ip_map, recent_changes, sseVars,
                   response, owed, missed>>

\* every id of the previous snapshot
Gone_All == refresh.previous_ids

\* previous_ids - current_ids
Gone == refresh.previous_ids \ refresh.current_ids

\* one pid of previous_ids - current_ids: peer_ip_map.pop(pid, {}) and the
\* disconnected event
RefreshDisconnect(pid) ==
    /\ refresh.pc = "peer"
    /\ refresh.todo = <<>>
    /\ pid \in Gone \ refresh.done
    /\ peer_ip_map' = [i \in DOMAIN peer_ip_map \ {pid} |-> peer_ip_map[i]]
    /\ recent_changes' = Append(recent_changes,
                                ChangeEvent(refresh.now, "disconnected", PoppedInfo(pid)))
    /\ refresh' = [refresh EXCEPT !.done = @ \cup {pid}]
    /\ UNCHANGED <<geoVars, now, current_peers, sseVars, response, owed, missed>>

\* "now - t < RECENT_WINDOW"
Recent(e) == refresh.now - e.time < RECENT_WINDOW

\* the prune of recent_changes; previous_ids = current_ids
RefreshPrune ==
    /\ refresh.pc = "peer"
    /\ refresh.todo = <<>>
    /\ Gone \subseteq refresh.done
    /\ recent_changes' = SelectSeq(recent_changes, Recent)
    /\ refresh' = [refresh EXCEPT !.pc = "broadcast",
                                  !.previous_ids = refresh.current_ids,
                                  !.first = FALSE]
    /\ UNCHANGED <<geoVars, now, current_peers, peer_ip_map, sseVars, response,
                   owed, missed>>

\* broadcast_update('peers_update', {})
RefreshBroadcast ==
    /\ refresh.pc = "broadcast"
    /\ BroadcastUpdate("peers_update")
    /\ refresh' = [refresh EXCEPT !.pc = "sleep"]
    /\ UNCHANGED <<geoVars, now, current_peers, peer_ip_map, recent_changes,
                   consumers, response, missed>>

\* time.sleep(REFRESH_INTERVAL)
RefreshSleep(cycles) ==
    /\ refresh.pc = "sleep"
    /\ now < cycles * REFRESH_INTERVAL \/ (stop_flag /\ now <= cycles * REFRESH_INTERVAL)
    /\ now' = now + REFRESH_INTERVAL
    /\ refresh' = [refresh EXCEPT !.pc = "snapshot"]
    /\ UNCHANGED <<geoVars, current_peers, peer_ip_map, recent_changes, sseVars,
                   response, owed, missed>>

\* the loop head of refresh_worker sees the stop signal
RefreshStop ==
    /\ refresh.pc = "snapshot"
    /\ StopObserved
    /\ refresh' = [refresh EXCEPT !.pc = "stopped"]
    /\ UNCHANGED <<geoVars, now, current_peers, peer_ip_map, recent_changes, sseVars,
                   response, owed, missed>>

\* /api/changes: changes = list(recent_changes), returned as it is
ApiChanges ==
    /\ response' = [op |-> "api_changes", at |-> now, body |-> recent_changes,
                    todo |-> <<>>]
    /\ UNCHANGED <<geoVars, now, trackVars, sseVars, owed, missed>>

\* /api/peers: peers_snapshot = list(current_peers)
ApiPeersStart ==
    /\ response' = [op |-> "api_peers", at |-> now, body |-> <<>>,
                    todo |-> current_peers]
    /\ UNCHANGED <<geoVars, now, trackVars, sseVars, owed, missed>>

\* get_cached_geo(ip): geo_cache.get(ip)
get_cached_geo(ip) == IF ip \in DOMAIN geo_cache THEN <<geo_cache[ip]>> ELSE <<>>

\* a miss of the session cache read as its own status
LocationStatus_MissUnavailable(network_type, ip, geo) ==
    IF network_type \in {"onion", "i2p", "cjdns"} \/ is_private_ip(ip) THEN "private"
    ELSE IF geo # <<>> /\ geo[1].status = "ok" /\ geo[1].city # "" THEN "ok"
    ELSE "unavailable"

\* "Determine location status" of api_peers
LocationStatus(network_type, ip, geo) ==
    IF network_type \in {"onion", "i2p", "cjdns"} \/ is_private_ip(ip) THEN "private"
    ELSE IF geo # <<>> /\ geo[1].status = "ok" /\ geo[1].city # "" THEN "ok"
    ELSE IF geo # <<>> /\ geo[1].status = "unavailable" THEN "unavailable"
    ELSE "pending"

\* /api/peers: one peer of the snapshot
ApiPeersPeer ==
    LET p == Head(response.todo) IN
    /\ response.op = "api_peers"
    /\ response.todo # <<>>
    /\ response' = [response EXCEPT
                      !.todo = Tail(@),
                      !.body = Append(@, [id |-> p.id, network |-> p.network,
                                          ip |-> p.ip,
                                          hit |-> p.ip \in DOMAIN geo_cache,
                                          location_status |->
                                            LocationStatus(p.network, p.ip,
                                                           get_cached_geo(p.ip))])]
    /\ UNCHANGED <<geoVars, now, trackVars, sseVars, owed, missed>>

\* the stream consumers of /api/events
Consumers == {"c1", "c2"}

\* a client opens /api/events: the generator yields {"type": "connected"}
ConsumerConnect(c) ==
    /\ consumers[c].pc = "closed"
    /\ consumers' = [consumers EXCEPT ![c].pc = "wait"]
    /\ UNCHANGED <<geoVars, now, trackVars, sse_update_event, last_update_type,
                   response, owed, missed>>

\* "if await request.is_disconnected(): break"
ConsumerDisconnect(c) ==
    /\ consumers[c].pc = "wait"
    /\ consumers' = [consumers EXCEPT ![c].pc = "closed"]
    /\ owed' = owed \ {c}
    /\ UNCHANGED <<geoVars, now, trackVars, sse_update_event, last_update_type,
                   response, missed>>

\* the generators run on one event loop: none runs between another's wait
\* and its yield
LoopFree(c) ==
    \A d \in DOMAIN consumers \ {c} : consumers[d].pc \in {"closed", "wait", "stopped"}

\* sse_update_event.wait(timeout=2) returns True on a set event
ConsumerWake(c) ==
    /\ consumers[c].pc = "waiting" \/ (consumers[c].pc = "wait" /\ ~StopObserved)
    /\ LoopFree(c)
    /\ sse_update_event
    /\ consumers' = [consumers EXCEPT ![c].pc = "clear"]
    /\ UNCHANGED <<geoVars, now, trackVars, sse_update_event, last_update_type,
                   response, owed, missed>>

\* sse_update_event.clear()
ConsumerClear(c) ==
    /\ consumers[c].pc = "clear"
    /\ sse_update_event' = FALSE
    /\ consumers' = [consumers EXCEPT ![c].pc = "yield"]
    /\ UNCHANGED <<geoVars, now, trackVars, last_update_type, response, owed, missed>>

\* yield {"type": last_update_type}
ConsumerYield(c) ==
    /\ consumers[c].pc = "yield"
    /\ consumers' = [consumers EXCEPT ![c].pc = "wait"]
    /\ owed' = owed \ {c}
    /\ UNCHANGED <<geoVars, now, trackVars, sse_update_event, last_update_type,
                   response, missed>>

\* the wait times out on an event nobody set: yield {"type": "keepalive"}
ConsumerKeepalive(c) ==
    /\ consumers[c].pc = "waiting" \/ (consumers[c].pc = "wait" /\ ~StopObserved)
    /\ LoopFree(c)
    /\ ~sse_update_event
    /\ missed' = missed \cup (owed \cap {c})
    /\ consumers' = [consumers EXCEPT ![c].pc = "wait"]
    /\ UNCHANGED <<geoVars, now, trackVars, sse_update_event, last_update_type,
                   response, owed>>

\* "while not stop_flag.is_set()": the generator returns
ConsumerStop(c) ==
    /\ consumers[c].pc = "wait"
    /\ LoopFree(c)
    /\ StopObserved
    /\ consumers' = [consumers EXCEPT ![c].pc = "stopped"]
    /\ owed' = owed \ {c}
    /\ UNCHANGED <<geoVars, now, trackVars, sse_update_event, last_update_type,
                   response, missed>>

\* the consumers whose generator can be inside sse_update_event.wait: one
\* at most, as the wait blocks the event loop
MayWait == IF \A d \in DOMAIN consumers : consumers[d].pc \in {"closed", "wait", "stopped"}
           THEN { d \in DOMAIN consumers : consumers[d].pc = "wait" }
           ELSE {}

\* signal_handler: stop_flag.set(); sse_update_event.set(); or the finally
\* clause of main: stop_flag.set().  The worker may be inside geo_queue.get
\* and one generator inside sse_update_event.wait at that moment.
Shutdown(by_signal, in_get, in_wait) ==
    /\ ~stop_flag
    /\ stop_flag' = TRUE
    /\ sse_update_event' = (by_signal \/ sse_update_event)
    /\ worker' = IF in_get /\ worker.pc = "get"
                 THEN [worker EXCEPT !.pc = "take"] ELSE worker
    /\ consumers' = [c \in DOMAIN consumers |->
                       IF c \in in_wait THEN [consumers[c] EXCEPT !.pc = "waiting"]
                       ELSE consumers[c]]
    /\ UNCHANGED <<prog, addrs, now, storeVars, pending_lookups, geo_queue, threads,
                   last_call, streak, hist, rate, trackVars, last_update_type, response,
                   owed, missed, locks>>

\* the ways the stop signal can be set
ShutdownStep ==
    \E by_signal \in BOOLEAN, in_get \in BOOLEAN,
       in_wait \in {{}} \cup {{c} : c \in MayWait} :
       Shutdown(by_signal, in_get, in_wait)

----------------------------------------------------------------------------
(* Specifications of MBCoreServer.py: SpecWeb, SpecTrack and SpecSse run   *)
(* the refresh thread with the worker and /api/peers, with /api/changes,   *)
(* and with two consumers of /api/events.                                  *)

InitWeb ==
    /\ prog = "MBCore"
    /\ addrs = {Addr(Peer41.network, Peer41.ip), Addr(Peer42.network, Peer42.ip)}
    /\ now = 0
    /\ peers_geo = EmptyTable
    /\ geo_db_enabled \in BOOLEAN
    /\ geo_db = EmptyTable
    /\ geo_cache = EmptyTable
    /\ pending_lookups = {}
    /\ geo_queue = <<>>
    /\ worker = IdleWorker
    /\ last_call = NoCall
    /\ threads = [t \in {Poller} |-> IdleThread]
    /\ streak = [i \in IPsOf(addrs) |-> 0]
    /\ hist = [i \in IPsOf(addrs) |-> NoEpisode]
    /\ current_peers = <<>>
    /\ refresh = [IdleRefresh EXCEPT !.pc = "snapshot"]
    /\ peer_ip_map = EmptyTable
    /\ recent_changes = <<>>
    /\ sse_update_event = FALSE
    /\ last_update_type = "connected"
    /\ consumers = [c \in Consumers |-> [pc |-> "closed"]]
    /\ response = NoResponse
    /\ owed = {}
    /\ missed = {}
    /\ rate = "none"
    /\ stop_flag = FALSE
    /\ locks = IdleLocks

RefreshStep(cycles) ==
    \/ \E result \in GetPeerInfoResults : RefreshSnapshot(result)
    \/ RefreshPeerMap
    \/ RefreshPeerConnected
    \/ PollerCached
    \/ PollerSetPrivate
    \/ QueueGeoLookupLock(Poller)
    \/ QueueGeoLookupPut(Poller)
    \/ RefreshPeerNext
    \/ \E pid \in refresh.previous_ids : RefreshDisconnect(pid)
    \/ RefreshPrune
    \/ RefreshBroadcast
    \/ RefreshSleep(cycles)

ConsumerStep ==
    \E c \in Consumers :
       \/ ConsumerConnect(c)
       \/ ConsumerDisconnect(c)
       \/ ConsumerWake(c)
       \/ ConsumerClear(c)
       \/ ConsumerYield(c)
       \/ ConsumerKeepalive(c)

\* the refresh thread, the worker and /api/peers
NextWeb ==
    \/ RefreshStep(MaxWebCycles)
    \/ WorkerStep({ApiNone, <<ApiBerlin>>})
    \/ WorkerDb
    \/ WorkerSave
    \/ WorkerCache
    \/ ApiPeersStart
    \/ ApiPeersPeer

SpecWeb == InitWeb /\ [][NextWeb]_vars

\* the refresh thread over several cycles and /api/changes
NextTrack ==
    \/ RefreshStep(MaxCycles)
    \/ ApiChanges

SpecTrack == InitWeb /\ [][NextTrack]_vars

\* the refresh thread as the caller of broadcast_update, and the consumers
NextSse ==
    \/ RefreshStep(MaxWebCycles)
    \/ ConsumerStep

SpecSse == InitWeb /\ [][NextSse]_vars

----------------------------------------------------------------------------
(* Specification SpecBackoff: MBCoreServer.py's refresh thread polling a   *)
(* public and a private peer, and its worker, over weeks.                  *)

\* the longest interval of RETRY_INTERVALS
LongestInterval == RETRY_INTERVALS[Len(RETRY_INTERVALS)]

\* the clock advances by the longest retry interval
WeekTick ==
    /\ now < MaxWeeks * LongestInterval
    /\ now' = now + LongestInterval
    /\ UNCHANGED <<webVars, rate, prog, addrs, storeVars, pipeVars, last_call, streak, hist>>

InitBackoff ==
    /\ InitPoll
    /\ prog = "MBCore"
    /\ addrs = {Addr("ipv4", IP_BERLIN), Addr("onion", IP_ONION)}

NextBackoff ==
    \/ \E a \in addrs : PollerNextPeer(a)
    \/ PollerCached
    \/ PollerSetPrivate
    \/ QueueGeoLookupLock(Poller)
    \/ QueueGeoLookupPut(Poller)
    \/ WorkerStep({ApiNone, <<ApiBerlin>>})
    \/ WorkerDb
    \/ WorkerSave
    \/ WorkerCache
    \/ WeekTick

SpecBackoff == InitBackoff /\ [][NextBackoff]_vars

----------------------------------------------------------------------------
(* Specification SpecLoop: one caller, the dispatcher and the worker of    *)
(* each program, with the stop signal; the worker thread is scheduled.     *)

InitLoop ==
    /\ prog \in {"peerlist", "server", "MBCore"}
    /\ addrs = QueueAddrs
    /\ now = 0
    /\ peers_geo = EmptyTable
    /\ geo_db_enabled \in (IF prog = "MBCore" THEN BOOLEAN ELSE {FALSE})
    /\ geo_db = EmptyTable
    /\ geo_cache = EmptyTable
    /\ pending_lookups = {}
    /\ geo_queue = <<>>
    /\ worker = IdleWorker
    /\ last_call = NoCall
    /\ threads = [t \in {"caller1"} |-> IdleThread]
    /\ streak = [i \in IPsOf(QueueAddrs) |-> 0]
    /\ hist = [i \in IPsOf(QueueAddrs) |-> NoEpisode]
    /\ InitWebIdle

\* the steps of the worker thread
WorkerRuns ==
    \/ WorkerStep({ApiNone, <<ApiBerlin>>})
    \/ WorkerDb
    \/ WorkerUpsert
    \/ WorkerUpsertRaises
    \/ WorkerSave
    \/ WorkerCache
    \/ WorkerTimeout
    \/ WorkerStop

NextLoop ==
    \/ \E t \in DOMAIN threads, a \in QueueAddrs : CallerCall(t, a)
    \/ \E t \in DOMAIN threads : QueueGeoLookupLock(t)
    \/ \E t \in DOMAIN threads : QueueGeoLookupPut(t)
    \/ WorkerRuns
    \/ ShutdownStep

SpecLoop == InitLoop /\ [][NextLoop]_vars /\ WF_worker(WorkerRuns)

----------------------------------------------------------------------------
(* Specification SpecMerge: MBCoreServer.py's worker, one caller and the    *)
(* request handler of POST /api/geodb/update.                              *)

\* the geo_cache tables the handler can download: rows of public IPs
RemoteTables ==
    {[i \in {IP_BERLIN} |-> DbRowOfData(ApiSparse, 0)],
     [i \in {IP_BERLIN, IP_FAILING} |-> DbRowOfData(ApiBerlin, 0)]}

\* api_geodb_update: returns at once when the store is disabled; a failed
\* download, an invalid or an empty file change nothing; else the downloaded
\* file becomes geo.db when there is none, or its rows are merged with
\* INSERT OR IGNORE: a row of the local table wins
ApiGeodbUpdate(remote) ==
    /\ prog = "MBCore"
    /\ geo_db_enabled
    /\ geo_db' = [i \in DOMAIN geo_db \cup DOMAIN remote |->
                    IF i \in DOMAIN geo_db THEN geo_db[i] ELSE remote[i]]
    /\ UNCHANGED <<webVars, rate, prog, addrs, now, peers_geo, geo_db_enabled, geo_cache,
                   pending_lookups, geo_queue, threads, worker, last_call, streak, hist>>

InitMerge == InitLoop /\ prog = "MBCore"

NextMerge ==
    \/ \E t \in DOMAIN threads, a \in QueueAddrs : CallerCall(t, a)
    \/ \E t \in DOMAIN threads : QueueGeoLookupLock(t)
    \/ \E t \in DOMAIN threads : QueueGeoLookupPut(t)
    \/ WorkerStep({ApiNone, <<ApiBerlin>>})
    \/ WorkerDb
    \/ WorkerSave
    \/ WorkerCache
    \/ \E remote \in RemoteTables : ApiGeodbUpdate(remote)

SpecMerge == InitMerge /\ [][NextMerge]_vars

----------------------------------------------------------------------------
(* Specification SpecLocks: the threads of MBCoreServer.py stepping         *)
(* through their lock programs; a loop body or a handler starts again.      *)

\* the operation thread t is at
NextOp(t) == LockPrograms[t][locks[t].pc]

\* the position after the operation
Advance(t) == IF locks[t].pc = Len(LockPrograms[t]) THEN 1 ELSE locks[t].pc + 1

\* the threads that hold mutex l
Holders(l) == {u \in DOMAIN locks : l \in locks[u].held}

LockFrame ==
    UNCHANGED <<prog, addrs, now, storeVars, pipeVars, last_call, streak, hist, rate,
                trackVars, sseVars, response, owed, missed, stop_flag>>

\* threading.Lock.acquire: blocks while any thread, the caller included,
\* holds the mutex
LockAcquire(t) ==
    /\ NextOp(t).kind = "acquire"
    /\ Holders(NextOp(t).lock) = {}
    /\ locks' = [locks EXCEPT ![t].pc = Advance(t), ![t].held = @ \cup {NextOp(t).lock}]
    /\ LockFrame

\* the end of the with block
LockRelease(t) ==
    /\ NextOp(t).kind = "release"
    /\ locks' = [locks EXCEPT ![t].pc = Advance(t), ![t].held = @ \ {NextOp(t).lock}]
    /\ LockFrame

\* any other step
LockOther(t) ==
    /\ NextOp(t).kind \notin {"acquire", "release"}
    /\ locks' = [locks EXCEPT ![t].pc = Advance(t)]
    /\ LockFrame

NextLocks ==
    \E t \in DOMAIN LockPrograms : LockAcquire(t) \/ LockRelease(t) \/ LockOther(t)

SpecLocks == InitWeb /\ [][NextLocks]_vars

----------------------------------------------------------------------------
(* Specification SpecStop: MBCoreServer.py's refresh thread, worker and    *)
(* stream consumers with the stop signal; every thread is scheduled, and   *)
(* a client that has opened /api/events stays connected.                   *)

\* what get_peer_info() returns in this specification: both peers, or []
\* on a failure
StopResults ==
    {[ok |-> TRUE, peers |-> <<Peer41, Peer42>>], [ok |-> FALSE, peers |-> <<>>]}

\* the steps of the refresh thread
RefreshRuns ==
    \/ \E result \in StopResults : RefreshSnapshot(result)
    \/ RefreshPeerMap
    \/ RefreshPeerConnected
    \/ PollerCached
    \/ PollerSetPrivate
    \/ QueueGeoLookupLock(Poller)
    \/ QueueGeoLookupPut(Poller)
    \/ RefreshPeerNext
    \/ \E pid \in refresh.previous_ids : RefreshDisconnect(pid)
    \/ RefreshPrune
    \/ RefreshBroadcast
    \/ RefreshSleep(MaxWebCycles)
    \/ RefreshStop

\* the steps of the generator of consumer c
ConsumerRuns(c) ==
    \/ ConsumerWake(c)
    \/ ConsumerClear(c)
    \/ ConsumerYield(c)
    \/ ConsumerKeepalive(c)
    \/ ConsumerStop(c)

\* the steps of MBCoreServer.py's worker thread; the API answers
WebWorkerRuns ==
    \/ WorkerStep({<<ApiBerlin>>})
    \/ WorkerDb
    \/ WorkerSave
    \/ WorkerCache
    \/ WorkerTimeout
    \/ WorkerStop

\* the store is disabled
InitStop == InitWeb /\ ~geo_db_enabled

NextStop ==
    \/ RefreshRuns
    \/ WebWorkerRuns
    \/ \E c \in Consumers : ConsumerConnect(c) \/ ConsumerRuns(c)
    \/ ShutdownStep

SpecStop ==
    /\ InitStop
    /\ [][NextStop]_vars
    /\ WF_vars(RefreshRuns)
    /\ WF_vars(WebWorkerRuns)
    /\ \A c \in Consumers : WF_vars(ConsumerRuns(c))

----------------------------------------------------------------------------
(* Specification SpecLive: MBCoreServer.py's refresh thread and its worker *)
(* with the stop signal never set; the worker thread is scheduled fairly.  *)

\* the steps of the worker thread while the stop signal is not set
LookupRuns ==
    \/ WorkerStep({ApiNone, <<ApiBerlin>>})
    \/ WorkerDb
    \/ WorkerSave
    \/ WorkerCache

NextLive ==
    \/ RefreshStep(MaxWebCycles)
    \/ LookupRuns

SpecLive == InitWeb /\ [][NextLive]_vars /\ WF_vars(LookupRuns)

----------------------------------------------------------------------------
(* Specification SpecStream: the refresh thread as the caller of           *)
(* broadcast_update and one client of /api/events that stays connected;    *)
(* the generator of the client is scheduled fairly.                        *)

\* the one client
Client == "c1"

\* the steps of the generator of consumer c while the stop signal is not set
StreamRuns(c) ==
    \/ ConsumerWake(c)
    \/ ConsumerClear(c)
    \/ ConsumerYield(c)
    \/ ConsumerKeepalive(c)

NextStream ==
    \/ RefreshStep(MaxWebCycles)
    \/ ConsumerConnect(Client)
    \/ StreamRuns(Client)

SpecStream == InitWeb /\ [][NextStream]_vars /\ WF_vars(StreamRuns(Client))

----------------------------------------------------------------------------
(* Claims on the dispatcher and the worker (SpecQueue) *)

\* C1: when queue_geo_lookup(ip) is called twice or more while ip is pending,
\* the calls put exactly one item for ip and lead to at most one external API
\* call for ip: exactly one once the worker has finished, unless the worker
\* of MBCoreServer.py found ip in its geo database, and then none.
C1_OneItemAtMostOneCall ==
    \A ip \in DOMAIN hist :
        hist[ip].calls >= 2
          => /\ hist[ip].puts <= 1
             /\ hist[ip].api <= 1
             /\ ~hist[ip].open
                  => /\ hist[ip].puts = 1
                     /\ hist[ip].from_db => (prog = "MBCore" /\ hist[ip].api = 0)
                     /\ ~hist[ip].from_db => hist[ip].api = 1

\* two calls while pending, the worker done, one API call made
C1_Witness ==
    \E ip \in DOMAIN hist :
        /\ hist[ip].calls >= 2
        /\ ~hist[ip].open
        /\ hist[ip].puts = 1
        /\ hist[ip].api = 1

\* C1 as stated: the two calls result in exactly one external API call
C1_ExactlyOneCall ==
    \A ip \in DOMAIN hist :
        (hist[ip].calls >= 2 /\ ~hist[ip].open) => hist[ip].api = 1

\* C2: a queue_geo_lookup(ip) call that finds ip in the pending set returns
\* in that step, and leaves the pending set and the lookup queue unchanged.
C2_PendingCallIsNoOp ==
    [][ \A t \in DOMAIN threads :
          ( /\ threads[t].pc = "queue"
            /\ threads'[t] # threads[t]
            /\ threads[t].addr.ip \in pending_lookups )
            => /\ threads'[t].pc = "idle"
               /\ pending_lookups' = pending_lookups
               /\ geo_queue' = geo_queue ]_vars

\* a call returned at once for an ip that is pending and whose item the
\* worker has already taken from the queue
C2_Witness ==
    /\ last_call.op = "queue_geo_lookup"
    /\ last_call.result = TRUE
    /\ last_call.ip \in pending_lookups
    /\ \A i \in 1..Len(geo_queue) : geo_queue[i].ip # last_call.ip
    /\ \E t \in DOMAIN threads :
          threads[t].addr.ip = last_call.ip /\ threads[t].pc = "idle"

----------------------------------------------------------------------------
(* Claims on the polling thread (SpecPoll) *)

\* the address classes that are not geolocated
PrivateClasses ==
    { Addr("ipv4", IP_TEN), Addr("ipv4", IP_172_16), Addr("ipv4", IP_192_168),
      Addr("ipv4", IP_LOOPBACK), Addr("ipv4", IP_LOCALHOST),
      Addr("ipv6", IP_LINKLOCAL), Addr("ipv6", IP_LOOPBACK6),
      Addr("onion", IP_ONION), Addr("i2p", IP_I2P), Addr("cjdns", IP_CJDNS) }

NonGeolocatable ==
    { a \in addrs : ~is_public_address(a.network, a.ip) \/ a \in PrivateClasses }

\* C3: an address that is private, loopback or link-local, or whose network
\* type is onion, i2p or cjdns, is never pending, never on the lookup queue
\* and never in the worker's hands, so never passed to fetch_geo_api; the
\* only record it gets is a PRIVATE placeholder without geo data.
C3_PrivateNeverLookedUp ==
    \A a \in NonGeolocatable :
        /\ ~is_public_address(a.network, a.ip)
        /\ a.ip \notin pending_lookups
        /\ \A i \in 1..Len(geo_queue) : geo_queue[i].ip # a.ip
        /\ worker.pc # "get" => worker.ip # a.ip
        /\ hist[a.ip] = NoEpisode
        /\ last_call.op \in {"queue_geo_lookup", "fetch_geo_api"} => last_call.ip # a.ip
        /\ a.ip \notin DOMAIN geo_db
        /\ a.ip \in DOMAIN geo_cache => geo_cache[a.ip] = EntryOf(BlankEntry("private"))
        /\ a.ip \in DOMAIN peers_geo
             => /\ peers_geo[a.ip].geo_status = GEO_PRIVATE
                /\ peers_geo[a.ip].geo_retry_count = 0
                /\ Blank(peers_geo[a.ip].country)
                /\ Blank(peers_geo[a.ip].city)

\* MBCoreServer.py gave an onion peer its placeholder while the worker was
\* looking up the public peer
C3_Witness ==
    /\ prog = "MBCore"
    /\ Addr("onion", IP_ONION) \in addrs
    /\ IP_ONION \in DOMAIN geo_cache
    /\ geo_cache[IP_ONION].status = "private"
    /\ worker.pc = "fetch"
    /\ worker.ip = IP_BERLIN

----------------------------------------------------------------------------
(* Claims on the store functions (SpecStore) *)

\* elapsed times probed around every retry interval, and far beyond the last
ElapsedProbes ==
    {0} \cup { RETRY_INTERVALS[i] + d : i \in DOMAIN RETRY_INTERVALS, d \in {-1, 0, 1} }
        \cup { 100 * RETRY_INTERVALS[Len(RETRY_INTERVALS)] }

UpsertOps == {"upsert_peer_geo", "server.upsert_peer_geo"}

\* the failures stored in a row for ip, one after the other, since ip was first seen
Failures(ip) == IF ip \in DOMAIN peers_geo THEN streak[ip] ELSE 0

\* should_retry_geo(ip) is false while less than `wait` seconds have passed
\* since the row's last lookup, and true from then on
RequiredWaitIs(ip, wait) ==
    \A e \in ElapsedProbes :
        should_retry_geo_at(peers_geo, ip, peers_geo[ip].geo_last_lookup + e)
          <=> (e >= wait)

\* C4: after k >= 1 consecutive UNAVAILABLE outcomes stored for a previously
\* unseen ip, the wait should_retry_geo requires before the next attempt is
\* RETRY_INTERVALS[min(k - 1, len(RETRY_INTERVALS) - 1)] (indices from 0):
\* one day after the first failure, three after the second, seven from then on.
C4_WaitAfterFailures ==
    \A ip \in StoreIPs :
        Failures(ip) >= 1
          => RequiredWaitIs(ip,
                RETRY_INTERVALS[Min(Failures(ip) - 1, Len(RETRY_INTERVALS) - 1) + 1])

\* two failures stored, and a retry refused a day after the second
C4_Witness ==
    /\ Failures(IP_FAILING) = 2
    /\ last_call.op = "should_retry_geo"
    /\ last_call.before = <<peers_geo[IP_FAILING]>>
    /\ now - peers_geo[IP_FAILING].geo_last_lookup = RETRY_INTERVALS[1]
    /\ last_call.result = FALSE

\* C4 as stated: the wait is RETRY_INTERVALS[min(k, len(RETRY_INTERVALS) - 1)]
C4_WaitIndexedByK ==
    \A ip \in StoreIPs :
        Failures(ip) >= 1
          => RequiredWaitIs(ip,
                RETRY_INTERVALS[Min(Failures(ip), Len(RETRY_INTERVALS) - 1) + 1])

\* C5: after k >= 1 consecutive failed lookups stored for a previously unseen
\* ip, the row's geo_retry_count is k - 1; three failures leave it at 2.
C5_RetryCountAfterFailures ==
    \A ip \in StoreIPs :
        Failures(ip) >= 1
          => /\ peers_geo[ip].geo_status = GEO_UNAVAILABLE
             /\ peers_geo[ip].geo_retry_count = Failures(ip) - 1

\* the third failure in a row has just been stored
C5_Witness ==
    /\ Failures(IP_FAILING) = 3
    /\ last_call.op = "upsert_peer_geo"
    /\ last_call.geo_status = GEO_UNAVAILABLE
    /\ peers_geo[IP_FAILING].geo_retry_count = 2

\* C5 as stated: the row's geo_retry_count is k
C5_RetryCountIsK ==
    \A ip \in StoreIPs :
        Failures(ip) >= 1 => peers_geo[ip].geo_retry_count = Failures(ip)

\* C6: after exactly three consecutive failed lookups of a previously unseen
\* ip, should_retry_geo is false until 604800 s, the last entry of
\* RETRY_INTERVALS, have passed since the last failure, and true from then on.
C6_ThreeFailuresWaitAWeek ==
    \A ip \in StoreIPs :
        Failures(ip) = 3
          => /\ RETRY_INTERVALS[Len(RETRY_INTERVALS)] = 604800
             /\ RequiredWaitIs(ip, 604800)

\* three failures stored, and a retry refused a day after the third
C6_Witness ==
    /\ Failures(IP_FAILING) = 3
    /\ last_call.op = "should_retry_geo"
    /\ last_call.before = <<peers_geo[IP_FAILING]>>
    /\ peers_geo[IP_FAILING].geo_status = GEO_UNAVAILABLE
    /\ now - peers_geo[IP_FAILING].geo_last_lookup = RETRY_INTERVALS[1]
    /\ last_call.result = FALSE

\* C7: should_retry_geo(ip) is true for every ip that has no row in the
\* store, at the moment of the call and at any later time.
C7_NoRecordRetries ==
    /\ (last_call.op = "should_retry_geo" /\ last_call.before = <<>>)
          => last_call.result = TRUE
    /\ \A ip \in StoreIPs \cup {IP_BERLIN} : \A e \in ElapsedProbes :
          ip \notin DOMAIN peers_geo => should_retry_geo_at(peers_geo, ip, now + e)

C7_Witness ==
    /\ last_call.op = "should_retry_geo"
    /\ last_call.before = <<>>
    /\ last_call.ip \notin DOMAIN peers_geo
    /\ last_call.result = TRUE

\* C8: should_retry_geo(ip) is false for every row whose status is OK or
\* PRIVATE, whatever its retry count and however long ago its last lookup.
C8_OkPrivateNeverRetried ==
    /\ ( /\ last_call.op = "should_retry_geo"
         /\ last_call.before # <<>>
         /\ last_call.before[1].geo_status \in {GEO_OK, GEO_PRIVATE} )
          => last_call.result = FALSE
    /\ \A ip \in DOMAIN peers_geo : \A e \in ElapsedProbes :
          peers_geo[ip].geo_status \in {GEO_OK, GEO_PRIVATE}
            => ~should_retry_geo_at(peers_geo, ip, peers_geo[ip].geo_last_lookup + e)

\* an OK row with a retry count past the table, asked a day after its lookup
C8_Witness ==
    /\ last_call.op = "should_retry_geo"
    /\ last_call.before # <<>>
    /\ last_call.before[1].geo_status = GEO_OK
    /\ last_call.before[1].geo_retry_count >= Len(RETRY_INTERVALS)
    /\ now - last_call.before[1].geo_last_lookup >= RETRY_INTERVALS[1]
    /\ last_call.result = FALSE

\* C9: after any peerlist.py upsert_peer_geo call with status OK, inserting
\* or updating, the stored row has status OK and geo_retry_count 0.
C9_OkResetsRetryCount ==
    (last_call.op = "upsert_peer_geo" /\ last_call.geo_status = GEO_OK)
      => /\ last_call.ip \in DOMAIN peers_geo
         /\ peers_geo[last_call.ip].geo_status = GEO_OK
         /\ peers_geo[last_call.ip].geo_retry_count = 0

\* an UNAVAILABLE row with a positive retry count updated to OK
C9_Witness ==
    /\ last_call.op = "upsert_peer_geo"
    /\ last_call.geo_status = GEO_OK
    /\ last_call.before # <<>>
    /\ last_call.before[1].geo_status = GEO_UNAVAILABLE
    /\ last_call.before[1].geo_retry_count > 0
    /\ peers_geo[last_call.ip].geo_retry_count = 0

\* C10: in peerlist.py and server.py, upsert_peer_geo on an existing row
\* with a blank ('' or None) city or ISP argument keeps a stored non-blank
\* city or ISP.
C10_BlankKeepsCityIsp ==
    (last_call.op \in UpsertOps /\ last_call.before # <<>>)
      => /\ (Blank(last_call.args.city) /\ ~Blank(last_call.before[1].city))
              => peers_geo[last_call.ip].city = last_call.before[1].city
         /\ (Blank(last_call.args.isp) /\ ~Blank(last_call.before[1].isp))
              => peers_geo[last_call.ip].isp = last_call.before[1].isp

\* server.py's upsert with an empty city and ISP on a row that holds Berlin/Acme
C10_Witness ==
    /\ last_call.op = "server.upsert_peer_geo"
    /\ last_call.before # <<>>
    /\ last_call.args.city = ""
    /\ last_call.args.isp = ""
    /\ last_call.before[1].city = "Berlin"
    /\ last_call.before[1].isp = "Acme"
    /\ peers_geo[last_call.ip].city = "Berlin"
    /\ peers_geo[last_call.ip].isp = "Acme"

----------------------------------------------------------------------------
(* Claims on the geo.db functions (SpecGeoDb) *)

\* C11: in MBCoreServer.py, save_geo_to_db on an ip that has a stored row
\* keeps the stored non-blank city and ISP when the incoming data carries a
\* blank value for that field.
C11_SaveKeepsCityIsp ==
    ( /\ last_call.op = "save_geo_to_db"
      /\ last_call.result = TRUE
      /\ last_call.before # <<>> )
      => /\ (Blank(last_call.args.city) /\ ~Blank(last_call.before[1].city))
              => geo_db[last_call.ip].city = last_call.before[1].city
         /\ (Blank(last_call.args.isp) /\ ~Blank(last_call.before[1].isp))
              => geo_db[last_call.ip].isp = last_call.before[1].isp

----------------------------------------------------------------------------
(* Claims on the running programs (SpecPoll) *)

\* C12: once a lookup of an ip has completed with status OK, a later
\* queue_geo_lookup call for that ip leads to no external API call by the
\* worker.
C12_NoCallAfterOk ==
    \A ip \in DOMAIN hist : hist[ip].after_ok => hist[ip].api = 0

----------------------------------------------------------------------------
(* Claims on the tracker of MBCoreServer.py (SpecTrack) *)

\* the disconnect loop of the cycle is over: the prune is the next step
DisconnectsDone ==
    /\ refresh.pc = "peer"
    /\ refresh.todo = <<>>
    /\ Gone \subseteq refresh.done

\* the events of recent_changes equal to e
EventsLike(e) == { i \in DOMAIN recent_changes : recent_changes[i] = e }

DisconnectedNow ==
    { i \in DOMAIN recent_changes :
        /\ recent_changes[i].time = refresh.now
        /\ recent_changes[i].type = "disconnected" }

\* C13: when refresh_worker has gone through the ids of the previous
\* snapshot that the new snapshot lacks, recent_changes holds exactly one
\* disconnected event of this cycle for each of them, with the ip, port and
\* network that peer_ip_map recorded when the id was last in a snapshot, and
\* no other disconnected event of this cycle.
C13_OneDisconnectedPerGoneId ==
    DisconnectsDone =>
      /\ \A pid \in Gone :
           Cardinality(EventsLike(ChangeEvent(refresh.now, "disconnected",
                                              refresh.seen[pid]))) = 1
      /\ Cardinality(DisconnectedNow) = Cardinality(Gone)

\* id 42 was in the previous snapshot at 203.0.113.x:8333 and is not in the
\* new one, and its disconnected event is in recent_changes
C13_Witness ==
    /\ DisconnectsDone
    /\ "42" \in Gone
    /\ EventsLike(ChangeEvent(refresh.now, "disconnected", PeerInfo(Peer42))) # {}

\* C15: every ChangeEvent that /api/changes returns is younger than
\* RECENT_WINDOW at the time of the read.
C15_ChangesYoungerThanWindow ==
    response.op = "api_changes" =>
      \A i \in DOMAIN response.body :
         response.at - response.body[i].time < RECENT_WINDOW

----------------------------------------------------------------------------
(* Claims on the consumers of /api/events (SpecSse) *)

\* C14: a consumer of /api/events that was connected when broadcast_update
\* signalled a change is sent a notification of it, never a keepalive in
\* its place.
C14_EveryConsumerNotified == missed = {}

----------------------------------------------------------------------------
(* Claims on the read calls of MBCoreServer.py (SpecWeb) *)

\* the step is one of /api/peers
ApiPeersActs == response' # response /\ response'.op = "api_peers"

\* the peers of the answer that are public and had no session cache entry
\* when they were read
PublicMisses(r) ==
    { i \in DOMAIN r.body :
        is_public_address(r.body[i].network, r.body[i].ip) /\ ~r.body[i].hit }

\* C16: /api/peers reports a public peer whose ip has no session cache entry
\* as pending, and no step of it changes the lookup queue, the pending set,
\* the session cache or the store.
C16_PeersReadIsPendingAndPure ==
    [][ApiPeersActs =>
         /\ UNCHANGED <<geo_queue, pending_lookups, geo_cache, geo_db, peers_geo>>
         /\ \A i \in PublicMisses(response') :
               response'.body[i].location_status = "pending"]_vars

\* /api/peers has answered for the public peer 42 while the cache had no
\* entry of its ip
C16_Witness ==
    /\ response.op = "api_peers"
    /\ \E i \in PublicMisses(response) :
          /\ response.body[i].id = "42"
          /\ response.body[i].location_status = "pending"

----------------------------------------------------------------------------
(* Claims on the worker's loop (SpecQueue) *)

\* ip waits in the queue, or a queue_geo_lookup call is about to put it
Awaited(ip) ==
    \/ \E i \in DOMAIN geo_queue : geo_queue[i].ip = ip
    \/ \E t \in DOMAIN threads : threads[t].pc = "put" /\ threads[t].addr.ip = ip

\* C17: when the worker is about to take the next item, the pending set
\* holds no ip of an item it has finished, whatever the outcome of that
\* item was (a store write that raised included): every pending ip is still
\* queued or being put.
C17_FinishedIpNotPending ==
    worker.pc = "get" => \A ip \in pending_lookups : Awaited(ip)

\* C18: the worker never makes an external geo API call after an earlier
\* one without having slept GEO_API_DELAY in between, on any path (a store
\* write that failed after the first call included).
C18_SleepBetweenApiCalls == rate # "unslept"

\* C19: in MBCoreServer.py, an item for which get_geo_from_db returned a
\* record is never at the external API call, at the store write or in the
\* inter-request sleep: the worker goes from its broadcast straight to the
\* next dequeue.
C19_StoreHitNoCallNoSleep ==
    (prog = "MBCore" /\ worker.from_db) =>
       worker.pc \in {"cache", "discard", "broadcast", "get"}

\* the worker has finished an item served from geo.db and is at geo_queue.get
C19_Witness ==
    /\ prog = "MBCore"
    /\ worker.from_db
    /\ worker.pc = "get"
    /\ worker.ip \notin pending_lookups
    /\ geo_cache[worker.ip].status = "ok"

\* C20: in MBCoreServer.py, once the session cache entry of a successful
\* external lookup is written, save_geo_to_db has been called for it.
C20_StoreWriteBeforeCache ==
    ( /\ prog = "MBCore"
      /\ worker.pc \in {"discard", "broadcast", "sleep"}
      /\ worker.data # ApiNone
      /\ ~worker.from_db )
      => worker.save_tried

\* the entry of a successful external lookup has just been written to the
\* session cache, after the write to an enabled store
C20_Witness ==
    /\ prog = "MBCore"
    /\ geo_db_enabled
    /\ worker.pc = "discard"
    /\ worker.data # ApiNone
    /\ ~worker.from_db
    /\ worker.save_tried
    /\ worker.ip \in DOMAIN geo_cache
    /\ worker.ip \in DOMAIN geo_db

----------------------------------------------------------------------------
(* Claims on the recorded status of an ip (SpecPoll) *)

\* the recorded status of ip: geo_status of its row in peerlist.py, the
\* status of its session cache entry in the web servers; <<>> when none
RecordedStatus(store, cache, ip) ==
    IF prog = "peerlist"
    THEN IF ip \in DOMAIN store
         THEN <<CASE store[ip].geo_status = GEO_OK -> "ok"
                  [] store[ip].geo_status = GEO_PRIVATE -> "private"
                  [] OTHER -> "unavailable">>
         ELSE <<>>
    ELSE IF ip \in DOMAIN cache THEN <<cache[ip].status>> ELSE <<>>

\* C21: once the recorded status of an ip is OK or PRIVATE, no step of the
\* poller or of the worker changes it to another status.
C21_OkPrivateAbsorbing ==
    [][\A ip \in IPsOf(addrs) :
          RecordedStatus(peers_geo, geo_cache, ip) \in {<<"ok">>, <<"private">>}
            => RecordedStatus(peers_geo', geo_cache', ip)
                 = RecordedStatus(peers_geo, geo_cache, ip)]_vars

\* the stored record of ip is UNAVAILABLE and its retry interval has not
\* elapsed at time t
InBackoff(ip, t) ==
    /\ ip \in DOMAIN peers_geo
    /\ peers_geo[ip].geo_status = GEO_UNAVAILABLE
    /\ t - peers_geo[ip].geo_last_lookup < RetryInterval(peers_geo[ip].geo_retry_count)

\* C22: in peerlist.py the worker makes no external lookup of an ip whose
\* stored record is UNAVAILABLE with less than its retry interval elapsed
\* since geo_last_lookup.
C22_NoLookupInBackoff ==
    [][(prog = "peerlist" /\ worker.pc = "fetch" /\ worker'.pc # "fetch")
         => ~InBackoff(worker.ip, now)]_vars

----------------------------------------------------------------------------
(* Claims on the retry of failed lookups in MBCoreServer.py (SpecBackoff) *)

\* the poller reads the session cache for a peer whose failed lookup was
\* recorded at least the longest retry interval ago
PollsElapsedFailure ==
    LET ip == threads[Poller].addr.ip IN
    /\ prog = "MBCore"
    /\ threads[Poller].pc = "cached"
    /\ threads'[Poller].pc # "cached"
    /\ ip \in DOMAIN geo_cache
    /\ geo_cache[ip].status = "unavailable"
    /\ hist[ip].failed_at >= 0
    /\ now - hist[ip].failed_at >= LongestInterval
    /\ ip \notin pending_lookups

\* C23: in MBCoreServer.py an ip whose external lookup failed is recorded
\* as unavailable, and when refresh_worker polls a peer with that ip after
\* the backoff interval has elapsed it queues a new lookup of it.
C23_FailedLookupRetried ==
    [][PollsElapsedFailure => threads'[Poller].pc = "queue"]_vars

----------------------------------------------------------------------------
(* Claims on the polling cycle of MBCoreServer.py (SpecTrack) *)

\* the events of recent_changes stamped with the time of the current cycle
EventsNow(types) ==
    { i \in DOMAIN recent_changes :
        /\ recent_changes[i].time = refresh.now
        /\ recent_changes[i].type \in types }

\* C24: in a cycle in which get_peer_info could not obtain a snapshot,
\* refresh_worker keeps the previous snapshot as current_peers, keeps
\* previous_ids, and appends no connected or disconnected event.
C24_RpcFailureKeepsSnapshot ==
    [][/\ (refresh.pc = "snapshot" /\ refresh'.pc = "peer" /\ ~refresh'.rpc_ok)
            => current_peers' = current_peers
       /\ (refresh.pc # "snapshot" /\ ~refresh.rpc_ok)
            => /\ refresh'.previous_ids = refresh.previous_ids
               /\ EventsNow({"connected", "disconnected"}) = {}]_vars

\* the ids of the new snapshot that the previous one lacked; none on the
\* first snapshot after startup
NewlyPresent ==
    IF refresh.first THEN {} ELSE refresh.current_ids \ refresh.previous_ids

\* C25: at the end of a polling cycle recent_changes holds one connected
\* event of this cycle for each peer whose id is in the new snapshot and
\* not in the previous one, and none for any other peer; the first
\* snapshot after startup gives no connected event.
C25_ConnectedForNewIds ==
    DisconnectsDone =>
      \A i \in DOMAIN current_peers :
         Cardinality(EventsLike(ChangeEvent(refresh.now, "connected",
                                            PeerInfo(current_peers[i]))))
           = IF current_peers[i].id \in NewlyPresent THEN 1 ELSE 0

----------------------------------------------------------------------------
(* Claims on the worker's handling of failures (SpecQueue) *)

\* C26: in MBCoreServer.py, when the geo.db write of a successful lookup
\* failed, the worker has nevertheless written a session cache entry with
\* status ok for the ip once it is past its cache write.
C26_CacheWrittenAfterFailedSave ==
    ( /\ prog = "MBCore"
      /\ worker.save_failed
      /\ worker.pc \in {"discard", "broadcast", "sleep"} )
      => /\ worker.ip \in DOMAIN geo_cache
         /\ geo_cache[worker.ip].status = "ok"

\* the write to geo.db failed, the store has no row of the ip, and the
\* worker has written its session cache entry
C26_Witness ==
    /\ prog = "MBCore"
    /\ worker.save_failed
    /\ worker.pc = "discard"
    /\ worker.ip \notin DOMAIN geo_db
    /\ worker.ip \in DOMAIN geo_cache
    /\ geo_cache[worker.ip].status = "ok"
    /\ geo_cache[worker.ip].city = "Berlin"

----------------------------------------------------------------------------
(* Claims on the worker's loop under the stop signal (SpecLoop) *)

\* the item in the worker's hands met a failed API call or a failed store
\* write
FailureSeen ==
    \/ worker.save_failed
    \/ /\ worker.data = ApiNone
       /\ worker.pc \in {"upsert", "cache", "discard", "broadcast", "sleep"}

\* C27: a failed external API call or a failed store operation never ends
\* the worker loop: the worker leaves its loop only on the stop signal, and
\* after a failure the items waiting in the queue are all dequeued unless
\* the stop signal is set.
C27_WorkerSurvivesFailures ==
    /\ [][worker'.pc = "stopped" => stop_flag]_vars
    /\ (FailureSeen /\ geo_queue # <<>>) ~> (geo_queue = <<>> \/ stop_flag)

\* peerlist.py's worker made an API call for a later item straight after a
\* store write that raised, and has stored its result
C27_Witness ==
    /\ prog = "peerlist"
    /\ rate = "unslept"
    /\ worker.pc = "discard"
    /\ ~worker.save_failed
    /\ ~stop_flag

\* the records of geolocatable IPs: rows of the Persistent Store and entries
\* of the Session Cache
PublicRecords(store, db, cache) ==
    [ip \in {i \in IPsOf(addrs) : \E a \in addrs : a.ip = i /\ is_public_address(a.network, i)} |->
        <<RowBefore(store, ip), RowBefore(db, ip), RowBefore(cache, ip)>>]

\* C28: every step that changes a record of a geolocatable IP in the
\* Persistent Store or the Session Cache is a step of the lookup worker.
C28_OnlyWorkerWritesRecords ==
    [][PublicRecords(peers_geo, geo_db, geo_cache)' # PublicRecords(peers_geo, geo_db, geo_cache)
         => worker' # worker]_vars

\* C29: in MBCoreServer.py every Session Cache entry with status ok is the
\* entry a fresh read of the Persistent Store gives for the same IP.
C29_OkEntryReadableFromStore ==
    prog = "MBCore" =>
        \A ip \in DOMAIN geo_cache :
            geo_cache[ip].status = "ok" =>
                /\ get_geo_from_db(geo_db, ip) # <<>>
                /\ geo_cache[ip] = EntryOf(CacheEntryOf(get_geo_from_db(geo_db, ip)[1], TRUE))

\* consumer c is outside the loop of its generator
OutOfLoop(c) == consumers[c].pc \in {"closed", "stopped"}

\* C30: once the stop signal is set, the worker, the refresh thread and every
\* stream consumer eventually leave their loop, and a worker that is at its
\* loop head with the stop signal set takes no item from the queue.
C30_AllLeaveAfterStop ==
    /\ stop_flag ~> (/\ worker.pc = "stopped"
                     /\ refresh.pc = "stopped"
                     /\ \A c \in Consumers : OutOfLoop(c))
    /\ [][(stop_flag /\ worker.pc \in {"get", "stopped"})
            => Len(geo_queue') >= Len(geo_queue)]_vars

\* all threads have left their loop on the stop signal, a consumer by its
\* loop head, and an item is still in the queue
C30_Witness ==
    /\ stop_flag
    /\ worker.pc = "stopped"
    /\ refresh.pc = "stopped"
    /\ \A c \in Consumers : OutOfLoop(c)
    /\ \E c \in Consumers : consumers[c].pc = "stopped"
    /\ geo_queue # <<>>

\* the peer ids of the latest snapshot
SnapshotIds == {current_peers[i].id : i \in DOMAIN current_peers}

\* the refresh thread is between two polling cycles
CycleDone == refresh.pc \in {"broadcast", "sleep", "snapshot", "stopped"}

\* C31: after each polling cycle peer_ip_map has an entry for exactly the
\* peer ids of the latest snapshot, and during the cycle no id whose
\* disconnected event has been emitted has an entry.
C31_MapHoldsSnapshotIds ==
    /\ CycleDone => DOMAIN peer_ip_map = SnapshotIds
    /\ refresh.done \cap DOMAIN peer_ip_map = {}

\* a cycle has ended in which one peer went and another stayed
C31_Witness ==
    /\ refresh.pc = "broadcast"
    /\ DOMAIN peer_ip_map # {}
    /\ refresh.done # {}

\* the mutexes of the pending set, the Session Cache, the PeerIdentity map
\* and the ChangeEvent buffer
GuardLocks == {"pending_lock", "geo_cache_lock", "peer_ip_map_lock", "changes_lock"}

\* the steps that call out or wait
Blocking == {"rpc", "http", "store", "sleep", "wait"}

\* C32: no thread holds the mutex of the pending set, the Session Cache, the
\* PeerIdentity map or the ChangeEvent buffer while it is at an RPC call, an
\* HTTP call, a Persistent Store operation or a sleep.
C32_NoLockAcrossIO ==
    \A t \in DOMAIN locks :
        NextOp(t).kind \in Blocking => locks[t].held \cap GuardLocks = {}

\* the worker is at its HTTP call while the refresh thread holds the cache's
\* mutex
C32_Witness ==
    /\ NextOp("geo_worker").kind = "http"
    /\ "geo_cache_lock" \in locks["refresh_worker"].held

\* thread t waits for a mutex that some thread holds
Blocked(t) == NextOp(t).kind = "acquire" /\ Holders(NextOp(t).lock) # {}

\* C40: no thread acquires a mutex while it holds another one, and the
\* threads never all wait for a mutex.
C40_NoNestedLocks ==
    /\ \A t \in DOMAIN locks :
          /\ Cardinality(locks[t].held) <= 1
          /\ NextOp(t).kind = "acquire" => locks[t].held = {}
    /\ \E t \in DOMAIN locks : ~Blocked(t)

\* a request handler waits for the mutex of the ChangeEvent buffer, which
\* the refresh thread holds
C40_Witness ==
    /\ Blocked("api_changes")
    /\ Holders("changes_lock") = {"refresh_worker"}

\* the text and the numeric location fields of a stored GeoRecord
TextFields == {"country", "region", "city", "district", "isp", "as_info"}
NumFields == {"lat", "lon", "hosting"}

\* C33: in peerlist.py, after upsert_peer_geo on an existing row every
\* location field that was populated is still populated.
C33_NoFieldRegresses ==
    (last_call.op = "upsert_peer_geo" /\ last_call.before # <<>>)
      => /\ \A f \in TextFields :
               ~Blank(last_call.before[1][f]) => ~Blank(peers_geo[last_call.ip][f])
         /\ \A f \in NumFields :
               last_call.before[1][f] # 0 => peers_geo[last_call.ip][f] # 0

\* the rows of the store that record a failed lookup
UnavailableIPs == { ip \in DOMAIN peers_geo : peers_geo[ip].geo_status = GEO_UNAVAILABLE }

\* the entry of RETRY_INTERVALS (indices from 0) a retry count selects
IntervalOfCount(retry_count) ==
    LET idx == IF retry_count <= Len(RETRY_INTERVALS) - 1
               THEN retry_count ELSE Len(RETRY_INTERVALS) - 1
    IN RETRY_INTERVALS[idx + 1]

\* C34: for every stored UNAVAILABLE row, should_retry_geo is true exactly
\* when now - geo_last_lookup >= RETRY_INTERVALS[min(geo_retry_count,
\* len(RETRY_INTERVALS) - 1)], for every retry count, those beyond the
\* length of the table included.
C34_RetryExactlyAfterInterval ==
    /\ [](\A ip \in UnavailableIPs :
            /\ should_retry_geo(ip)
                  <=> (now - peers_geo[ip].geo_last_lookup
                         >= IntervalOfCount(peers_geo[ip].geo_retry_count))
            /\ \A e \in ElapsedProbes :
                  should_retry_geo_at(peers_geo, ip, peers_geo[ip].geo_last_lookup + e)
                    <=> (e >= IntervalOfCount(peers_geo[ip].geo_retry_count)))
    /\ [][\A ip \in UnavailableIPs :
            StoreShouldRetry(ip)
              => (last_call'.result = TRUE
                    <=> (now - peers_geo[ip].geo_last_lookup
                           >= IntervalOfCount(peers_geo[ip].geo_retry_count)))]_vars

\* a row whose retry count is the length of the table, asked a day after
\* its last lookup: no retry yet
C34_Witness ==
    /\ last_call.op = "should_retry_geo"
    /\ last_call.ip \in UnavailableIPs
    /\ peers_geo[last_call.ip].geo_retry_count = Len(RETRY_INTERVALS)
    /\ now - peers_geo[last_call.ip].geo_last_lookup = RETRY_INTERVALS[1]
    /\ last_call.result = FALSE

\* the items of ip waiting in the lookup queue
QueuedItems(ip) == { i \in 1..Len(geo_queue) : geo_queue[i].ip = ip }

\* the positions of the worker between geo_queue.get and the removal of the
\* pending mark: the lookup of the item it took and the write of its result
Processing == {"db", "fetch", "save", "upsert", "cache", "discard"}

\* the number of items of ip in the queue or being processed by the worker
Items(ip) ==
    Cardinality(QueuedItems(ip))
      + (IF worker.pc \in Processing /\ worker.ip = ip THEN 1 ELSE 0)

\* C35: each ip has at most one item that is in the lookup queue or being
\* processed by the worker, and an ip that has such an item is in the
\* pending set.
C35_OneItemAndPending ==
    \A ip \in IPsOf(addrs) :
        /\ Items(ip) <= 1
        /\ Items(ip) = 1 => ip \in pending_lookups

\* queue_geo_lookup was called again for an ip whose item the worker is
\* looking up, and returned without a second item
C35_Witness ==
    /\ worker.pc = "fetch"
    /\ hist[worker.ip].calls = 2
    /\ hist[worker.ip].puts = 1
    /\ QueuedItems(worker.ip) = {}
    /\ worker.ip \in pending_lookups

\* C36: in the web servers no item is put on the lookup queue for an ip
\* that has a session cache entry.
C36_NoPutForCachedIp ==
    [][Len(geo_queue') > Len(geo_queue)
         => geo_queue'[Len(geo_queue')].ip \notin DOMAIN geo_cache]_vars

\* ip is in the pending set or has a session cache entry
PendingOrCached(ip, pending, cache) == ip \in pending \/ ip \in DOMAIN cache

\* C39: in the web servers every ip that was ever put on the lookup queue
\* is in the pending set or has a session cache entry.  An ip put on the
\* queue is in one of the two (hist[ip].puts counts the puts of its current
\* or last pending episode), and an ip that is in one of the two stays so.
C39_QueuedIsPendingOrCached ==
    /\ [](\A ip \in IPsOf(addrs) :
            (hist[ip].puts > 0 \/ QueuedItems(ip) # {})
              => PendingOrCached(ip, pending_lookups, geo_cache))
    /\ [][\A ip \in IPsOf(addrs) :
            PendingOrCached(ip, pending_lookups, geo_cache)
              => PendingOrCached(ip, pending_lookups', geo_cache')]_vars

\* the worker has written the entry of an ip that was put on the queue and
\* has removed its pending mark
C39_Witness ==
    /\ prog \in {"MBCore", "server"}
    /\ worker.pc = "broadcast"
    /\ hist[worker.ip].puts > 0
    /\ worker.ip \notin pending_lookups
    /\ worker.ip \in DOMAIN geo_cache

\* ip has a session cache entry written by a lookup
LookedUp(ip) ==
    ip \in DOMAIN geo_cache /\ geo_cache[ip].status \in {"ok", "unavailable"}

\* C37: in the web server, with the worker scheduled fairly and the stop
\* signal not set, every ip put on the lookup queue eventually has a
\* session cache entry with status ok or unavailable, and is eventually
\* removed from the pending set.
C37_QueuedEventuallyLookedUp ==
    \A ip \in {Peer41.ip, Peer42.ip} :
        /\ (QueuedItems(ip) # {}) ~> LookedUp(ip)
        /\ (QueuedItems(ip) # {}) ~> (ip \notin pending_lookups)

\* a failed lookup of a queued ip has ended: the entry is unavailable and
\* the pending mark is gone
C37_Witness ==
    /\ worker.pc = "broadcast"
    /\ hist[worker.ip].puts > 0
    /\ worker.data = ApiNone
    /\ LookedUp(worker.ip)
    /\ geo_cache[worker.ip].status = "unavailable"
    /\ worker.ip \notin pending_lookups

\* C38: with a single connected stream consumer every broadcast_update is
\* followed by a state-changed notification the consumer emits after the
\* broadcast (owed holds the consumer from a broadcast to its next yield of
\* last_update_type), wherever the consumer is when the broadcast happens.
C38_BroadcastEventuallyNotified ==
    (Client \in owed) ~> (Client \notin owed)

\* a broadcast happened after the consumer cleared the flag and before its
\* yield: the consumer is not waiting and the flag is set again
C38_Witness ==
    /\ consumers[Client].pc = "yield"
    /\ sse_update_event
    /\ Client \in owed
    /\ consumers["c2"].pc = "closed"

====
